---------------------------- MODULE Spec2Model ----------------------------
(***************************************************************************)
(* Model of the catalog of influxdb3 (influxdb3_catalog/src/catalog.rs):   *)
(* the sequenced in-memory catalog, the write permit, the application of   *)
(* catalog batches, soft deletion, and the log / checkpoint used on        *)
(* restart.                                                                *)
(*                                                                         *)
(* Conventions.  Option<T> is a sequence of length 0 (None) or 1 (Some).   *)
(* A Rust map is a function over its key set.  A BiHashMap is a set of     *)
(* <<left, right>> pairs.  A result of a fallible operation is a record    *)
(* with a field kind in {"ok", "err", "panic"}.                            *)
(***************************************************************************)
EXTENDS Integers, Sequences, FiniteSets, TLC

(***************************************************************************)
(* Generic helpers for maps, options and sequences.                        *)
(***************************************************************************)
NoneOpt == << >>

Some(v) == << v >>

IsSome(o) == Len(o) = 1

MapPut(f, k, v) == [x \in (DOMAIN f) \cup {k} |-> IF x = k THEN v ELSE f[x]]

MapDel(f, k) == [x \in (DOMAIN f) \ {k} |-> f[x]]

SeqContains(s, v) == \E i \in 1..Len(s) : s[i] = v

(***************************************************************************)
(* bimap::BiHashMap, as used by Repository::id_name_map.                   *)
(***************************************************************************)
\* BiHashMap::insert: a pair with the same left or the same right value is
\* overwritten.
BiInsert(m, l, r) == {p \in m : p[1] # l /\ p[2] # r} \cup {<<l, r>>}

BiRemoveByLeft(m, l) == {p \in m : p[1] # l}

BiContainsLeft(m, l) == \E p \in m : p[1] = l

BiContainsRight(m, r) == \E p \in m : p[2] = r

BiGetByRight(m, r) == IF BiContainsRight(m, r)
                      THEN Some((CHOOSE p \in m : p[2] = r)[1])
                      ELSE NoneOpt

BiGetByLeft(m, l) == IF BiContainsLeft(m, l)
                     THEN Some((CHOOSE p \in m : p[1] = l)[2])
                     ELSE NoneOpt

(***************************************************************************)
(* Repository<I, R>: the value map, the id <-> name bi-map and next_id.    *)
(***************************************************************************)
RepositoryNew == [repo |-> << >>, id_name_map |-> {}, next_id |-> 0]

\* Faulty variant: next_id is handed out and stays as it is.
RepoKeepNextId(r) == r

\* Repository::get_and_increment_next_id: the repository afterwards; the id
\* handed out is the next_id before.
RepoIncrementNextId(r) == [r EXCEPT !.next_id = r.next_id + 1]

RepoNameToId(r, name) == BiGetByRight(r.id_name_map, name)

RepoIdToName(r, id) == BiGetByLeft(r.id_name_map, id)

RepoContainsId(r, id) == id \in DOMAIN r.repo

RepoContainsName(r, name) == BiContainsRight(r.id_name_map, name)

\* Faulty variant: no id is found.
RepoGetByIdMisses(r, id) == NoneOpt

RepoGetById(r, id) == IF id \in DOMAIN r.repo THEN Some(r.repo[id]) ELSE NoneOpt

RepoGetByName(r, name) ==
    LET id == RepoNameToId(r, name)
    IN  IF IsSome(id) THEN RepoGetById(r, id[1]) ELSE NoneOpt

\* Repository::id_exists panics when the bi-map and the value map disagree.
RepoIdExistsPanics(r, id) == BiContainsLeft(r.id_name_map, id) # (id \in DOMAIN r.repo)

RepoIdExists(r, id) == id \in DOMAIN r.repo

RepoIdAndNameExists(r, id, name) ==
    RepoIdExists(r, id) /\ BiContainsRight(r.id_name_map, name)

\* Repository::insert.  name is resource.name().
RepoInsert(r, id, name, resource) ==
    IF RepoIdExistsPanics(r, id)
    THEN [kind |-> "panic", repo |-> r, err |-> "inconsistent repository"]
    ELSE IF RepoIdAndNameExists(r, id, name)
    THEN [kind |-> "err", repo |-> r, err |-> "AlreadyExists"]
    ELSE [kind |-> "ok",
          repo |-> [repo        |-> MapPut(r.repo, id, resource),
                    id_name_map |-> BiInsert(r.id_name_map, id, name),
                    next_id     |-> IF r.next_id <= id THEN id + 1 ELSE r.next_id],
          err  |-> ""]

\* Faulty variant: the value is replaced but the id <-> name bi-map keeps the
\* name the id had before.
RepoUpdateKeepsNameMap(r, id, name, resource) ==
    IF RepoIdExistsPanics(r, id)
    THEN [kind |-> "panic", repo |-> r, err |-> "inconsistent repository"]
    ELSE IF ~RepoIdExists(r, id)
    THEN [kind |-> "err", repo |-> r, err |-> "NotFound"]
    ELSE [kind |-> "ok",
          repo |-> [r EXCEPT !.repo = MapPut(r.repo, id, resource)],
          err  |-> ""]

\* Faulty variant: no id is found.
RepoUpdateNotFound(r, id, name, resource) == [kind |-> "err", repo |-> r, err |-> "NotFound"]

\* Repository::update.
RepoUpdate(r, id, name, resource) ==
    IF RepoIdExistsPanics(r, id)
    THEN [kind |-> "panic", repo |-> r, err |-> "inconsistent repository"]
    ELSE IF ~RepoIdExists(r, id)
    THEN [kind |-> "err", repo |-> r, err |-> "NotFound"]
    ELSE [kind |-> "ok",
          repo |-> [r EXCEPT !.repo = MapPut(r.repo, id, resource),
                             !.id_name_map = BiInsert(r.id_name_map, id, name)],
          err  |-> ""]

\* Repository::remove.
RepoRemove(r, id) ==
    [r EXCEPT !.repo = MapDel(r.repo, id),
              !.id_name_map = BiRemoveByLeft(r.id_name_map, id)]

(***************************************************************************)
(* Time.  A timestamp in nanoseconds (i64) is kept as whole seconds and    *)
(* the nanoseconds within the second, as Time::from_timestamp_nanos        *)
(* splits it; only non-negative timestamps are modelled.                   *)
(***************************************************************************)
NanosPerSec == 1000 * 1000 * 1000

TimeNs(secs, nanos) == [secs |-> secs, nanos |-> nanos]

\* Time + Duration for a duration of whole seconds.
TimeAddSecs(t, d) == [t EXCEPT !.secs = t.secs + d]

Digit == <<"0", "1", "2", "3", "4", "5", "6", "7", "8", "9">>

Fmt2(n) == Digit[((n \div 10) % 10) + 1] \o Digit[(n % 10) + 1]

Fmt4(n) == Fmt2(n \div 100) \o Fmt2(n % 100)

\* The proleptic Gregorian date of a day count since 1970-01-01, as chrono
\* computes it for DateTime<Utc>.
CivilFromDays(days) ==
    LET z   == days + 719468
        era == z \div 146097
        doe == z - era * 146097
        yoe == (doe - (doe \div 1460) + (doe \div 36524) - (doe \div 146096)) \div 365
        doy == doe - (365 * yoe + (yoe \div 4) - (yoe \div 100))
        mp  == (5 * doy + 2) \div 153
        d   == doy - ((153 * mp + 2) \div 5) + 1
        m   == IF mp < 10 THEN mp + 3 ELSE mp - 9
        y   == yoe + era * 400 + (IF m <= 2 THEN 1 ELSE 0)
    IN  [year |-> y, month |-> m, day |-> d]

\* deletion_time.date_time().format(SOFT_DELETION_TIME_FORMAT), the format
\* being "%Y%m%dT%H%M%S".
FormatDeletionTime(t) ==
    LET date == CivilFromDays(t.secs \div 86400)
        sod  == t.secs % 86400
    IN  Fmt4(date.year) \o Fmt2(date.month) \o Fmt2(date.day) \o "T"
        \o Fmt2(sod \div 3600) \o Fmt2((sod % 3600) \div 60) \o Fmt2(sod % 60)

make_new_name_using_deleted_time(name, deletion_time) ==
    name \o "-" \o FormatDeletionTime(deletion_time)


(***************************************************************************)
(* ColumnDefinition and TableDefinition.                                   *)
(***************************************************************************)
TIME_COLUMN_NAME == "time"

INTERNAL_DB_NAME == "_internal"

\* The tag names are tag_000 .. tag_<NumTagNames - 1>.
NumTagNames == 252

\* The name of the i-th tag of a table with many tags, with the number
\* padded so that the names order as their numbers do.
TagName(i) == "tag_" \o Digit[((i \div 100) % 10) + 1] \o Fmt2(i % 100)

\* The column names of the model in the order of a BTreeMap<Arc<str>, _>.
ColumnNameOrder ==
    <<"f1", "f2", "t1", "t2">> \o [i \in 1..NumTagNames |-> TagName(i - 1)] \o <<"time">>

ColumnDefinitionNew(id, name, data_type, nullable) ==
    [id |-> id, name |-> name, data_type |-> data_type, nullable |-> nullable]

\* Faulty variant: the time column is put first.
make_sort_key_time_first(series_key_names, add_time) ==
    IF add_time THEN <<TIME_COLUMN_NAME>> \o series_key_names ELSE series_key_names

\* TableDefinition::make_sort_key
make_sort_key(series_key_names, add_time) ==
    IF add_time THEN Append(series_key_names, TIME_COLUMN_NAME) ELSE series_key_names

\* The entry a BTreeMap keeps for a name: the last one inserted.
LastDefFor(defs, name) ==
    defs[CHOOSE i \in 1..Len(defs) :
            /\ defs[i].name = name
            /\ \A j \in (i + 1)..Len(defs) : defs[j].name # name]

\* One pass of the loop of TableDefinition::new: the column of the k-th name
\* of ColumnNameOrder, when there is one, is inserted into the repository.
NewInsertColumn(cols, defs, k) ==
    LET name == ColumnNameOrder[k]
    IN  IF ~(\E i \in 1..Len(defs) : defs[i].name = name)
        THEN [kind |-> "ok", repo |-> cols]
        ELSE LET d == LastDefFor(defs, name)
                 r == RepoInsert(cols, d.id, name,
                          ColumnDefinitionNew(d.id, name, d.data_type,
                                              d.data_type # "Timestamp"))
             IN  IF r.kind # "ok"
                 THEN [kind |-> "panic", repo |-> cols]
                 ELSE [kind |-> "ok", repo |-> r.repo]

\* The loop of TableDefinition::new over ordered_columns, for the names
\* lo..hi of ColumnNameOrder in their order: the passes of the first half,
\* then those of the second half; a pass that fails ends the loop.
RECURSIVE NewInsertColumns(_, _, _, _)
NewInsertColumns(cols, defs, lo, hi) ==
    IF lo > hi
    THEN [kind |-> "ok", repo |-> cols]
    ELSE IF lo = hi
    THEN NewInsertColumn(cols, defs, lo)
    ELSE LET mid   == (lo + hi) \div 2
             first == NewInsertColumns(cols, defs, lo, mid)
         IN  IF first.kind # "ok"
             THEN first
             ELSE NewInsertColumns(first.repo, defs, mid + 1, hi)

\* TableDefinition::new.  columns is a sequence of [id, name, data_type].
TableDefinitionNew(table_id, table_name, columns, series_key) ==
    LET ins == NewInsertColumns(RepositoryNew, columns, 1, Len(ColumnNameOrder))
    IN  IF ins.kind # "ok"
        THEN [kind |-> "panic", err |-> "table definition initialized with duplicate column ids"]
        ELSE IF \E i \in 1..Len(series_key) : ~IsSome(RepoIdToName(ins.repo, series_key[i]))
        THEN [kind |-> "panic", err |-> "invalid column id in series key definition"]
        ELSE LET names == [i \in 1..Len(series_key) |-> RepoIdToName(ins.repo, series_key[i])[1]]
             IN  [kind |-> "ok",
                  table |-> [table_id         |-> table_id,
                             table_name       |-> table_name,
                             columns          |-> ins.repo,
                             series_key       |-> series_key,
                             series_key_names |-> names,
                             sort_key         |-> make_sort_key(names,
                                                     RepoContainsName(ins.repo, TIME_COLUMN_NAME)),
                             deleted          |-> FALSE,
                             hard_delete_time |-> NoneOpt]]

\* TableDefinition::new_from_op
TableNewFromOp(op) ==
    TableDefinitionNew(op.table_id, op.table_name, op.field_definitions, op.key)

\* The first loop of TableDefinition::add_columns: the new columns are put
\* into the name-ordered map (a name that is already there panics) and new
\* tags are appended to the series key.  acc carries the name -> definition
\* map, the series key and sort_key_changed.
RECURSIVE AddColumnsLoop(_, _, _)
AddColumnsLoop(acc, columns, i) ==
    IF i > Len(columns)
    THEN acc
    ELSE LET c == columns[i]
         IN  IF c.name \in DOMAIN acc.cols
             THEN [acc EXCEPT !.kind = "panic"]
             ELSE LET withCol == [acc EXCEPT !.cols = MapPut(acc.cols, c.name,
                                       ColumnDefinitionNew(c.id, c.name, c.data_type,
                                                           c.name # TIME_COLUMN_NAME))]
                      next == IF c.data_type = "Tag" /\ ~SeqContains(acc.series_key, c.id)
                              THEN [withCol EXCEPT !.series_key = Append(acc.series_key, c.id),
                                                   !.series_key_names = Append(acc.series_key_names, c.name),
                                                   !.sort_key_changed = TRUE]
                              ELSE IF c.data_type = "Timestamp" /\ ~SeqContains(acc.series_key, c.id)
                              THEN [withCol EXCEPT !.sort_key_changed = TRUE]
                              ELSE withCol
                  IN  AddColumnsLoop(next, columns, i + 1)

\* One pass of the second loop of add_columns: the column of the k-th name
\* of ColumnNameOrder, when the ordered map has it, is inserted.
AddColumnsInsert(repo, cols, k) ==
    LET name == ColumnNameOrder[k]
    IN  IF name \notin DOMAIN cols
        THEN [kind |-> "ok", repo |-> repo]
        ELSE LET r == RepoInsert(repo, cols[name].id, name, cols[name])
             IN  IF r.kind # "ok"
                 THEN [kind |-> "panic", repo |-> repo]
                 ELSE [kind |-> "ok", repo |-> r.repo]

\* The second loop of add_columns: a new repository from the ordered map,
\* for the names lo..hi of ColumnNameOrder in their order.
RECURSIVE AddColumnsRebuild(_, _, _, _)
AddColumnsRebuild(repo, cols, lo, hi) ==
    IF lo > hi
    THEN [kind |-> "ok", repo |-> repo]
    ELSE IF lo = hi
    THEN AddColumnsInsert(repo, cols, lo)
    ELSE LET mid   == (lo + hi) \div 2
             first == AddColumnsRebuild(repo, cols, lo, mid)
         IN  IF first.kind # "ok"
             THEN first
             ELSE AddColumnsRebuild(first.repo, cols, mid + 1, hi)

\* TableDefinition::add_columns
TableAddColumns(table, columns) ==
    LET existing == [name \in {table.columns.repo[id].name : id \in DOMAIN table.columns.repo} |->
                        CHOOSE c \in {table.columns.repo[id] : id \in DOMAIN table.columns.repo} :
                            c.name = name]
        acc == AddColumnsLoop([kind |-> "ok", cols |-> existing,
                               series_key |-> table.series_key,
                               series_key_names |-> table.series_key_names,
                               sort_key_changed |-> FALSE], columns, 1)
        reb == AddColumnsRebuild(RepositoryNew, acc.cols, 1, Len(ColumnNameOrder))
    IN  IF acc.kind = "panic"
        THEN [kind |-> "panic", table |-> table, err |-> "attempted to add existing column"]
        ELSE IF reb.kind # "ok"
        THEN [kind |-> "panic", table |-> table, err |-> "should be a new column"]
        ELSE [kind |-> "ok", err |-> "",
              table |-> [table EXCEPT
                           !.columns = reb.repo,
                           !.series_key = acc.series_key,
                           !.series_key_names = acc.series_key_names,
                           !.sort_key = IF acc.sort_key_changed
                                        THEN make_sort_key(acc.series_key_names,
                                                 RepoContainsName(reb.repo, TIME_COLUMN_NAME))
                                        ELSE table.sort_key]]

\* Faulty variant: a field whose id exists is skipped whatever its type.
AddFieldsCollectAnyType(table, fields, i, new_fields) ==
    LET IsNew(f) == ~IsSome(RepoGetById(table.columns, f.id))
    IN  [kind |-> "ok",
         new_fields |-> new_fields \o SelectSeq(SubSeq(fields, i, Len(fields)), IsNew)]

\* One pass of the loop of TableDefinition::add_fields: a field whose id
\* exists with another type is a FieldTypeMismatch, one whose id exists with
\* the same type is skipped, and any other is pushed onto new_fields.
AddFieldsCollectStep(table, f, new_fields) ==
    LET existing == RepoGetById(table.columns, f.id)
    IN  IF IsSome(existing)
        THEN IF existing[1].data_type # f.data_type
             THEN [kind |-> "err", new_fields |-> new_fields]
             ELSE [kind |-> "ok", new_fields |-> new_fields]
        ELSE [kind |-> "ok", new_fields |-> Append(new_fields, f)]

\* The passes for the fields lo..hi in their order: those of the first half,
\* then those of the second half; a pass that fails ends the loop.
RECURSIVE AddFieldsCollectRange(_, _, _, _, _)
AddFieldsCollectRange(table, fields, lo, hi, new_fields) ==
    IF lo > hi
    THEN [kind |-> "ok", new_fields |-> new_fields]
    ELSE IF lo = hi
    THEN AddFieldsCollectStep(table, fields[lo], new_fields)
    ELSE LET mid   == (lo + hi) \div 2
             first == AddFieldsCollectRange(table, fields, lo, mid, new_fields)
         IN  IF first.kind # "ok"
             THEN first
             ELSE AddFieldsCollectRange(table, fields, mid + 1, hi, first.new_fields)

\* The loop of TableDefinition::add_fields that collects the new fields,
\* from the i-th field on.
AddFieldsCollect(table, fields, i, new_fields) ==
    AddFieldsCollectRange(table, fields, i, Len(fields), new_fields)

\* The Cow::Owned that add_fields returns after add_columns.
OwnedTable(r) == [kind |-> r.kind, err |-> r.err, table |-> r.table, owned |-> TRUE]

\* TableDefinition::add_fields.  owned tells whether the Cow became owned.
TableAddFields(table, fields) ==
    LET col == AddFieldsCollect(table, fields, 1, << >>)
    IN  IF col.kind = "err"
        THEN [kind |-> "err", err |-> "FieldTypeMismatch", table |-> table, owned |-> FALSE]
        ELSE IF col.new_fields = << >>
        THEN [kind |-> "ok", err |-> "", table |-> table, owned |-> FALSE]
        ELSE OwnedTable(TableAddColumns(table, col.new_fields))

(***************************************************************************)
(* DatabaseSchema and the database catalog ops (UpdateDatabaseSchema).     *)
(* An update_schema result carries the schema and owned, which tells       *)
(* whether the Cow<DatabaseSchema> has become Owned.                       *)
(***************************************************************************)
\* DatabaseSchema::new
DatabaseSchemaNew(id, name) ==
    [id               |-> id,
     name             |-> name,
     tables           |-> RepositoryNew,
     retention_period |-> NoneOpt,
     deleted          |-> FALSE,
     hard_delete_time |-> NoneOpt]

SchemaOk(schema, owned) == [kind |-> "ok", err |-> "", schema |-> schema, owned |-> owned]

SchemaErr(schema, owned, err) == [kind |-> "err", err |-> err, schema |-> schema, owned |-> owned]

SchemaPanic(schema, owned, err) == [kind |-> "panic", err |-> err, schema |-> schema, owned |-> owned]

\* DatabaseSchema::update_table
SchemaUpdateTable(schema, owned, table) ==
    LET r == RepoUpdate(schema.tables, table.table_id, table.table_name, table)
    IN  IF r.kind = "ok"
        THEN SchemaOk([schema EXCEPT !.tables = r.repo], TRUE)
        ELSE [kind |-> r.kind, err |-> r.err, schema |-> schema, owned |-> TRUE]

\* impl UpdateDatabaseSchema for DatabaseCatalogOp, arm CreateDatabase
UpdateSchemaCreateDatabase(op, schema, owned) ==
    IF op.database_id # schema.id \/ op.database_name # schema.name
    THEN SchemaPanic(schema, owned, "Create database call received by a mismatched DatabaseSchema")
    ELSE SchemaOk([schema EXCEPT !.retention_period = op.retention_period], TRUE)

\* The end of the update_schema of a table update whose update_table
\* returned r: an Owned table is put into the schema, a Borrowed one leaves
\* the schema as it is.
TableUpdateSchema(schema, owned, r) ==
    IF r.kind # "ok"
    THEN [kind |-> r.kind, err |-> r.err, schema |-> schema, owned |-> owned]
    ELSE IF r.owned
    THEN SchemaUpdateTable(schema, owned, r.table)
    ELSE SchemaOk(schema, owned)

\* CreateTableLog::update_schema for a table id that is new: the table t
\* built by TableDefinition::new_from_op is inserted.
SchemaInsertTable(schema, owned, op, t) ==
    IF t.kind # "ok"
    THEN SchemaPanic(schema, owned, t.err)
    ELSE LET ins == RepoInsert(schema.tables, op.table_id, t.table.table_name, t.table)
         IN  IF ins.kind # "ok"
             THEN SchemaPanic(schema, TRUE, "table inserted from the log should not already exist")
             ELSE SchemaOk([schema EXCEPT !.tables = ins.repo], TRUE)

\* impl UpdateDatabaseSchema for CreateTableLog
UpdateSchemaCreateTable(op, schema, owned) ==
    LET existing == RepoGetById(schema.tables, op.table_id)
    IN  IF IsSome(existing)
        THEN TableUpdateSchema(schema, owned,
                               TableAddFields(existing[1], op.field_definitions))
        ELSE SchemaInsertTable(schema, owned, op, TableNewFromOp(op))

\* impl<T: TableUpdate> UpdateDatabaseSchema for T, with T = AddFieldsLog
UpdateSchemaAddFields(op, schema, owned) ==
    LET existing == RepoGetById(schema.tables, op.table_id)
    IN  IF ~IsSome(existing)
        THEN SchemaErr(schema, owned, "TableNotFound")
        ELSE TableUpdateSchema(schema, owned,
                               TableAddFields(existing[1], op.field_definitions))

\* Faulty variant: the database is renamed whether or not it is already
\* deleted.
UpdateSchemaSoftDeleteDatabaseRenamesAgain(op, schema, owned) ==
    SchemaOk([schema EXCEPT
                !.name = make_new_name_using_deleted_time(op.database_name,
                                                          op.deletion_time),
                !.deleted = TRUE,
                !.hard_delete_time = op.hard_deletion_time], TRUE)

\* impl UpdateDatabaseSchema for SoftDeleteDatabaseLog
UpdateSchemaSoftDeleteDatabase(op, schema, owned) ==
    LET renamed == IF ~schema.deleted
                   THEN [schema EXCEPT
                           !.name = make_new_name_using_deleted_time(op.database_name,
                                                                     op.deletion_time),
                           !.deleted = TRUE]
                   ELSE schema
    IN  SchemaOk([renamed EXCEPT !.hard_delete_time = op.hard_deletion_time], TRUE)

\* The table definition SoftDeleteTableLog::update_schema builds from the
\* table: a table not yet deleted is marked and renamed, and the hard
\* delete time is set in either case.
SoftDeletedTable(table, op) ==
    [(IF ~table.deleted
      THEN [table EXCEPT
              !.deleted = TRUE,
              !.table_name = make_new_name_using_deleted_time(op.table_name,
                                                              op.deletion_time)]
      ELSE table)
     EXCEPT !.hard_delete_time = op.hard_deletion_time]

\* The tables.update(..).expect("the table should exist") of
\* SoftDeleteTableLog::update_schema.
SchemaPutDeletedTable(schema, new_def) ==
    LET r == RepoUpdate(schema.tables, new_def.table_id, new_def.table_name, new_def)
    IN  IF r.kind # "ok"
        THEN SchemaPanic(schema, TRUE, "the table should exist")
        ELSE SchemaOk([schema EXCEPT !.tables = r.repo], TRUE)

\* impl UpdateDatabaseSchema for SoftDeleteTableLog
UpdateSchemaSoftDeleteTable(op, schema, owned) ==
    IF ~RepoContainsId(schema.tables, op.table_id)
    THEN SchemaOk(schema, owned)
    ELSE SchemaPutDeletedTable(schema,
             SoftDeletedTable(schema.tables.repo[op.table_id], op))

\* impl UpdateDatabaseSchema for SetRetentionPeriodLog
UpdateSchemaSetRetentionPeriod(op, schema, owned) ==
    SchemaOk([schema EXCEPT !.retention_period = op.retention_period], TRUE)

\* impl UpdateDatabaseSchema for ClearRetentionPeriodLog
UpdateSchemaClearRetentionPeriod(op, schema, owned) ==
    SchemaOk([schema EXCEPT !.retention_period = NoneOpt], TRUE)

\* impl UpdateDatabaseSchema for DatabaseCatalogOp
UpdateSchema(op, schema, owned) ==
    CASE op.op = "CreateDatabase"       -> UpdateSchemaCreateDatabase(op, schema, owned)
      [] op.op = "CreateTable"          -> UpdateSchemaCreateTable(op, schema, owned)
      [] op.op = "AddFields"            -> UpdateSchemaAddFields(op, schema, owned)
      [] op.op = "SoftDeleteDatabase"   -> UpdateSchemaSoftDeleteDatabase(op, schema, owned)
      [] op.op = "SoftDeleteTable"      -> UpdateSchemaSoftDeleteTable(op, schema, owned)
      [] op.op = "SetRetentionPeriod"   -> UpdateSchemaSetRetentionPeriod(op, schema, owned)
      [] op.op = "ClearRetentionPeriod" -> UpdateSchemaClearRetentionPeriod(op, schema, owned)

\* The loop of DatabaseSchema::new_if_updated_from_batch over the ops: the
\* i-th op is applied to the schema, and UpdateSchemaNext goes on with its
\* result r or returns its error.
RECURSIVE UpdateSchemaLoop(_, _, _, _)
RECURSIVE UpdateSchemaNext(_, _, _)
UpdateSchemaLoop(ops, i, schema, owned) ==
    IF i > Len(ops)
    THEN SchemaOk(schema, owned)
    ELSE UpdateSchemaNext(ops, i, UpdateSchema(ops[i], schema, owned))

UpdateSchemaNext(ops, i, r) ==
    IF r.kind # "ok" THEN r ELSE UpdateSchemaLoop(ops, i + 1, r.schema, r.owned)

\* DatabaseSchema::new_if_updated_from_batch: the updates are made on a copy
\* (the Cow), so db_schema itself is never changed.  owned = FALSE is the
\* result Ok(None).
new_if_updated_from_batch(db_schema, database_batch) ==
    UpdateSchemaLoop(database_batch.ops, 1, db_schema, FALSE)

\* The .expect("database must be new") of DatabaseSchema::new_from_batch.
ExpectNewDatabase(r) ==
    IF r.kind = "ok" /\ ~r.owned
    THEN SchemaPanic(r.schema, FALSE, "database must be new")
    ELSE r

\* DatabaseSchema::new_from_batch
new_from_batch(database_batch) ==
    ExpectNewDatabase(
        new_if_updated_from_batch(
            DatabaseSchemaNew(database_batch.database_id, database_batch.database_name),
            database_batch))

\* Faulty variant: the operator token has another name.
OtherOperatorTokenName == "admin"

(***************************************************************************)
(* TokenRepository, GenerationConfig and InnerCatalog.                     *)
(***************************************************************************)
DEFAULT_OPERATOR_TOKEN_NAME == "_admin"

TokenRepositoryNew == [repo |-> RepositoryNew, hash_lookup_map |-> {}]

\* TokenRepository::add_token: the hash is entered before the insert is
\* attempted, and stays entered when the insert fails.
TokenAddToken(tokens, token_id, token_info) ==
    LET hashed == [tokens EXCEPT !.hash_lookup_map =
                       BiInsert(tokens.hash_lookup_map, token_id, token_info.hash)]
        r      == RepoInsert(tokens.repo, token_id, token_info.name, token_info)
    IN  [kind |-> r.kind, err |-> r.err, tokens |-> [hashed EXCEPT !.repo = r.repo]]

\* Faulty variant: a regeneration also renews created_at.
TokenUpdateAdminTokenHashRenews(tokens, token_id, hash, updated_at) ==
    LET existing == RepoGetById(tokens.repo, token_id)
    IN  IF ~IsSome(existing)
        THEN [kind |-> "err", err |-> "MissingAdminTokenToUpdate", tokens |-> tokens]
        ELSE LET info == [existing[1] EXCEPT !.hash = hash,
                                             !.created_at = updated_at,
                                             !.updated_at = Some(updated_at),
                                             !.updated_by = Some(token_id)]
                 r    == RepoUpdate(tokens.repo, token_id, info.name, info)
             IN  [kind |-> r.kind, err |-> r.err,
                  tokens |-> [repo |-> r.repo,
                              hash_lookup_map |->
                                  BiInsert(tokens.hash_lookup_map, token_id, hash)]]

\* TokenRepository::update_admin_token_hash
TokenUpdateAdminTokenHash(tokens, token_id, hash, updated_at) ==
    LET existing == RepoGetById(tokens.repo, token_id)
    IN  IF ~IsSome(existing)
        THEN [kind |-> "err", err |-> "MissingAdminTokenToUpdate", tokens |-> tokens]
        ELSE LET info == [existing[1] EXCEPT !.hash = hash,
                                             !.updated_at = Some(updated_at),
                                             !.updated_by = Some(token_id)]
                 r    == RepoUpdate(tokens.repo, token_id, info.name, info)
             IN  IF r.kind # "ok"
                 THEN [kind |-> r.kind, err |-> r.err, tokens |-> tokens]
                 ELSE [kind |-> "ok", err |-> "",
                       tokens |-> [repo |-> r.repo,
                                   hash_lookup_map |->
                                       BiInsert(tokens.hash_lookup_map, token_id, hash)]]

\* TokenRepository::delete_token
TokenDeleteToken(tokens, token_name) ==
    LET id == RepoNameToId(tokens.repo, token_name)
    IN  IF ~IsSome(id)
        THEN [kind |-> "err", err |-> "NotFound", tokens |-> tokens]
        ELSE [kind |-> "ok", err |-> "",
              tokens |-> [repo |-> RepoRemove(tokens.repo, id[1]),
                          hash_lookup_map |-> BiRemoveByLeft(tokens.hash_lookup_map, id[1])]]

\* TokenInfo::new followed by set_permissions
TokenInfoNew(id, name, hash, created_at, expiry, permissions) ==
    [id |-> id, name |-> name, hash |-> hash, created_at |-> created_at,
     expiry |-> expiry, updated_at |-> NoneOpt, updated_by |-> NoneOpt,
     permissions |-> permissions]

\* Faulty variant: setting the duration a level has counts as an update.
GenSetDurationEqualUpdates(config, level, duration) ==
    IF level \in DOMAIN config /\ config[level] # duration
    THEN [kind |-> "err", err |-> "CannotChangeGenerationDuration",
          config |-> config, updated |-> FALSE]
    ELSE [kind |-> "ok", err |-> "", config |-> MapPut(config, level, duration),
          updated |-> TRUE]

\* GenerationConfig::set_duration.  updated is the Ok(bool).
GenSetDuration(config, level, duration) ==
    IF level \in DOMAIN config
    THEN IF config[level] # duration
         THEN [kind |-> "err", err |-> "CannotChangeGenerationDuration",
               config |-> config, updated |-> FALSE]
         ELSE [kind |-> "ok", err |-> "", config |-> config, updated |-> FALSE]
    ELSE [kind |-> "ok", err |-> "", config |-> MapPut(config, level, duration),
          updated |-> TRUE]

\* InnerCatalog::new
InnerCatalogNew ==
    [sequence          |-> 0,
     generation_config |-> << >>,
     nodes             |-> RepositoryNew,
     databases         |-> RepositoryNew,
     tokens            |-> TokenRepositoryNew]

\* The result of applying a batch: kind, the catalog afterwards (changed in
\* place, also when an error is returned) and the Ok(bool) updated.
ApplyOk(st, updated) == [kind |-> "ok", err |-> "", st |-> st, updated |-> updated]

ApplyErr(st, err) == [kind |-> "err", err |-> err, st |-> st, updated |-> FALSE]

ApplyPanic(st, err) == [kind |-> "panic", err |-> err, st |-> st, updated |-> FALSE]

\* Faulty variant: a node is registered again whatever its instance id.
ApplyNodeOpAnyInstance(st, node_batch, op) ==
    IF op.op = "RegisterNode"
    THEN LET existing == RepoGetByName(st.nodes, op.node_id)
         IN  IF IsSome(existing)
             THEN IF FALSE
                  THEN ApplyErr(st, "InvalidNodeRegistration")
                  ELSE LET n == [existing[1] EXCEPT
                                    !.instance_id = op.instance_id,
                                    !.mode = op.mode,
                                    !.core_count = op.core_count,
                                    !.state = [s |-> "Running", t |-> op.registered_time_ns]]
                           r == RepoUpdate(st.nodes, node_batch.node_catalog_id, n.node_id, n)
                       IN  IF r.kind # "ok"
                           THEN ApplyPanic(st, "existing node should update")
                           ELSE ApplyOk([st EXCEPT !.nodes = r.repo], TRUE)
             ELSE LET n == [node_id         |-> op.node_id,
                            node_catalog_id |-> node_batch.node_catalog_id,
                            instance_id     |-> op.instance_id,
                            mode            |-> op.mode,
                            core_count      |-> op.core_count,
                            state           |-> [s |-> "Running", t |-> op.registered_time_ns]]
                      r == RepoInsert(st.nodes, node_batch.node_catalog_id, n.node_id, n)
                  IN  IF r.kind # "ok"
                      THEN ApplyPanic(st, "there should not already be a node")
                      ELSE ApplyOk([st EXCEPT !.nodes = r.repo], TRUE)
    ELSE \* StopNode
         LET existing == RepoGetById(st.nodes, node_batch.node_catalog_id)
         IN  IF ~IsSome(existing)
             THEN ApplyPanic(st, "node should exist")
             ELSE LET n == [existing[1] EXCEPT
                               !.state = [s |-> "Stopped", t |-> op.stopped_time_ns]]
                      r == RepoUpdate(st.nodes, node_batch.node_catalog_id, n.node_id, n)
                  IN  IF r.kind # "ok"
                      THEN ApplyPanic(st, "there should be a node to update")
                      ELSE ApplyOk([st EXCEPT !.nodes = r.repo], TRUE)

\* Faulty variant: a registration with another instance id stops the node.
ApplyNodeOpFencesInstance(st, node_batch, op) ==
    IF op.op = "RegisterNode"
    THEN LET existing == RepoGetByName(st.nodes, op.node_id)
         IN  IF IsSome(existing)
             THEN IF existing[1].instance_id # op.instance_id
                  THEN ApplyErr([st EXCEPT !.nodes.repo[existing[1].node_catalog_id].state =
                                    [s |-> "Stopped", t |-> op.registered_time_ns]],
                                "InvalidNodeRegistration")
                  ELSE LET n == [existing[1] EXCEPT
                                    !.mode = op.mode,
                                    !.core_count = op.core_count,
                                    !.state = [s |-> "Running", t |-> op.registered_time_ns]]
                           r == RepoUpdate(st.nodes, node_batch.node_catalog_id, n.node_id, n)
                       IN  IF r.kind # "ok"
                           THEN ApplyPanic(st, "existing node should update")
                           ELSE ApplyOk([st EXCEPT !.nodes = r.repo], TRUE)
             ELSE LET n == [node_id         |-> op.node_id,
                            node_catalog_id |-> node_batch.node_catalog_id,
                            instance_id     |-> op.instance_id,
                            mode            |-> op.mode,
                            core_count      |-> op.core_count,
                            state           |-> [s |-> "Running", t |-> op.registered_time_ns]]
                      r == RepoInsert(st.nodes, node_batch.node_catalog_id, n.node_id, n)
                  IN  IF r.kind # "ok"
                      THEN ApplyPanic(st, "there should not already be a node")
                      ELSE ApplyOk([st EXCEPT !.nodes = r.repo], TRUE)
    ELSE \* StopNode
         LET existing == RepoGetById(st.nodes, node_batch.node_catalog_id)
         IN  IF ~IsSome(existing)
             THEN ApplyPanic(st, "node should exist")
             ELSE LET n == [existing[1] EXCEPT
                               !.state = [s |-> "Stopped", t |-> op.stopped_time_ns]]
                      r == RepoUpdate(st.nodes, node_batch.node_catalog_id, n.node_id, n)
                  IN  IF r.kind # "ok"
                      THEN ApplyPanic(st, "there should be a node to update")
                      ELSE ApplyOk([st EXCEPT !.nodes = r.repo], TRUE)

\* One op of InnerCatalog::apply_node_batch
ApplyNodeOp(st, node_batch, op) ==
    IF op.op = "RegisterNode"
    THEN LET existing == RepoGetByName(st.nodes, op.node_id)
         IN  IF IsSome(existing)
             THEN IF existing[1].instance_id # op.instance_id
                  THEN ApplyErr(st, "InvalidNodeRegistration")
                  ELSE LET n == [existing[1] EXCEPT
                                    !.mode = op.mode,
                                    !.core_count = op.core_count,
                                    !.state = [s |-> "Running", t |-> op.registered_time_ns]]
                           r == RepoUpdate(st.nodes, node_batch.node_catalog_id, n.node_id, n)
                       IN  IF r.kind # "ok"
                           THEN ApplyPanic(st, "existing node should update")
                           ELSE ApplyOk([st EXCEPT !.nodes = r.repo], TRUE)
             ELSE LET n == [node_id         |-> op.node_id,
                            node_catalog_id |-> node_batch.node_catalog_id,
                            instance_id     |-> op.instance_id,
                            mode            |-> op.mode,
                            core_count      |-> op.core_count,
                            state           |-> [s |-> "Running", t |-> op.registered_time_ns]]
                      r == RepoInsert(st.nodes, node_batch.node_catalog_id, n.node_id, n)
                  IN  IF r.kind # "ok"
                      THEN ApplyPanic(st, "there should not already be a node")
                      ELSE ApplyOk([st EXCEPT !.nodes = r.repo], TRUE)
    ELSE \* StopNode
         LET existing == RepoGetById(st.nodes, node_batch.node_catalog_id)
         IN  IF ~IsSome(existing)
             THEN ApplyPanic(st, "node should exist")
             ELSE LET n == [existing[1] EXCEPT
                               !.state = [s |-> "Stopped", t |-> op.stopped_time_ns]]
                      r == RepoUpdate(st.nodes, node_batch.node_catalog_id, n.node_id, n)
                  IN  IF r.kind # "ok"
                      THEN ApplyPanic(st, "there should be a node to update")
                      ELSE ApplyOk([st EXCEPT !.nodes = r.repo], TRUE)

\* One op of InnerCatalog::apply_token_batch
ApplyTokenOp(st, op) ==
    LET r == CASE op.op \in {"CreateAdminToken", "CreateScopedToken"} ->
                    TokenAddToken(st.tokens, op.token_id,
                        TokenInfoNew(op.token_id, op.name, op.hash, op.created_at, op.expiry,
                                     IF op.op = "CreateAdminToken" THEN "Wildcard"
                                     ELSE op.permissions))
               [] op.op = "RegenerateAdminToken" ->
                    TokenUpdateAdminTokenHash(st.tokens, op.token_id, op.hash, op.updated_at)
               [] op.op = "DeleteToken" ->
                    TokenDeleteToken(st.tokens, op.token_name)
    IN  [kind |-> r.kind, err |-> r.err, st |-> [st EXCEPT !.tokens = r.tokens],
         updated |-> r.kind = "ok"]

\* One op of InnerCatalog::apply_delete_batch
ApplyDeleteOp(st, op) ==
    IF op.op = "DeleteDatabase"
    THEN IF IsSome(RepoGetById(st.databases, op.db_id))
         THEN ApplyOk([st EXCEPT !.databases = RepoRemove(st.databases, op.db_id)], TRUE)
         ELSE ApplyOk(st, FALSE)
    ELSE \* DeleteTable
         LET db == RepoGetById(st.databases, op.db_id)
         IN  IF IsSome(db) /\ IsSome(RepoGetById(db[1].tables, op.table_id))
             THEN LET new_db == [db[1] EXCEPT !.tables = RepoRemove(db[1].tables, op.table_id)]
                      r      == RepoUpdate(st.databases, op.db_id, new_db.name, new_db)
                  IN  IF r.kind # "ok"
                      THEN [kind |-> r.kind, err |-> r.err, st |-> st, updated |-> FALSE]
                      ELSE ApplyOk([st EXCEPT !.databases = r.repo], TRUE)
             ELSE ApplyOk(st, FALSE)

\* One op of InnerCatalog::apply_generation_batch
ApplyGenerationOp(st, op) ==
    LET r == GenSetDuration(st.generation_config, op.level, op.duration)
    IN  [kind |-> r.kind, err |-> r.err,
         st |-> [st EXCEPT !.generation_config = r.config], updated |-> r.updated]

ApplyOp(st, batch, op) ==
    CASE batch.kind = "Node"       -> ApplyNodeOp(st, batch, op)
      [] batch.kind = "Token"      -> ApplyTokenOp(st, op)
      [] batch.kind = "Delete"     -> ApplyDeleteOp(st, op)
      [] batch.kind = "Generation" -> ApplyGenerationOp(st, op)

\* The for loop of apply_node_batch, apply_token_batch, apply_delete_batch
\* and apply_generation_batch: the ops are applied to the catalog one after
\* the other; ApplyOpsNext goes on with the result r of the i-th op, and the
\* first failing op returns out of the loop.
RECURSIVE ApplyOpsLoop(_, _, _, _)
RECURSIVE ApplyOpsNext(_, _, _, _)
ApplyOpsLoop(st, batch, i, updated) ==
    IF i > Len(batch.ops)
    THEN ApplyOk(st, updated)
    ELSE ApplyOpsNext(batch, i, updated, ApplyOp(st, batch, batch.ops[i]))

ApplyOpsNext(batch, i, updated, r) ==
    IF r.kind # "ok"
    THEN r
    ELSE ApplyOpsLoop(r.st, batch, i + 1, updated \/ r.updated)

\* The arm of apply_database_batch for a database that exists: n is the
\* result of new_if_updated_from_batch.
ApplyUpdatedDatabase(st, db, n) ==
    IF n.kind # "ok"
    THEN [kind |-> n.kind, err |-> n.err, st |-> st, updated |-> FALSE]
    ELSE IF ~n.owned
    THEN ApplyOk(st, FALSE)
    ELSE LET r == RepoUpdate(st.databases, db.id, n.schema.name, n.schema)
         IN  IF r.kind # "ok"
             THEN ApplyPanic(st, "existing database should be updated")
             ELSE ApplyOk([st EXCEPT !.databases = r.repo], TRUE)

\* The arm of apply_database_batch for a database that is new: n is the
\* result of new_from_batch.
ApplyNewDatabase(st, n) ==
    IF n.kind # "ok"
    THEN [kind |-> n.kind, err |-> n.err, st |-> st, updated |-> FALSE]
    ELSE LET r == RepoInsert(st.databases, n.schema.id, n.schema.name, n.schema)
         IN  IF r.kind # "ok"
             THEN ApplyPanic(st, "new database should be inserted")
             ELSE ApplyOk([st EXCEPT !.databases = r.repo], TRUE)

\* InnerCatalog::apply_database_batch
apply_database_batch(st, database_batch) ==
    LET db == RepoGetById(st.databases, database_batch.database_id)
    IN  IF IsSome(db)
        THEN ApplyUpdatedDatabase(st, db[1],
                                  new_if_updated_from_batch(db[1], database_batch))
        ELSE ApplyNewDatabase(st, new_from_batch(database_batch))

\* The updated.then(..) of apply_catalog_batch: the sequence is set when the
\* batch updated the catalog.
ThenSetSequence(r, sequence) ==
    IF r.kind = "ok" /\ r.updated
    THEN [r EXCEPT !.st = [r.st EXCEPT !.sequence = sequence]]
    ELSE r

\* Faulty variant: the batch is applied but the sequence number is not set.
apply_catalog_batch_keeps_sequence(st, catalog_batch, sequence) ==
    IF catalog_batch.kind = "Database"
    THEN apply_database_batch(st, catalog_batch)
    ELSE ApplyOpsLoop(st, catalog_batch, 1, FALSE)

\* InnerCatalog::apply_catalog_batch: the sequence is set only when the
\* batch updated the catalog.
apply_catalog_batch(st, catalog_batch, sequence) ==
    ThenSetSequence(IF catalog_batch.kind = "Database"
                    THEN apply_database_batch(st, catalog_batch)
                    ELSE ApplyOpsLoop(st, catalog_batch, 1, FALSE),
                    sequence)

(***************************************************************************)
(* Bounds of the model and the inputs of the catalog API.                  *)
(***************************************************************************)
\* No batch is composed once the catalog sequence has reached MaxSeq.
MaxSeq == 3

\* The same bound for the writer that soft-deletes one entity repeatedly.
MaxDeleteSeq == 5

\* No database id is handed out beyond MaxDbId.
MaxDbId == 2

\* No token id is handed out beyond MaxTokenId.
MaxTokenId == 3

\* The process is restarted at most MaxRestarts times.
MaxRestarts == 1

\* The checkpoint interval given to Catalog::new_with_checkpoint_interval.
CheckpointInterval == 2

\* Catalog::DEFAULT_HARD_DELETE_DURATION, in seconds.
DEFAULT_HARD_DELETE_DURATION == 10 * 365 * 24 * 60 * 60

\* The writers (concurrent callers of the catalog API).
Writers == {1, 2}

\* The times the time provider may report: 1970-01-01T00:00:00Z and
\* 2023-11-14T22:13:20.000000005Z.
Epoch == TimeNs(0, 0)

Now2023 == TimeNs(1700000000, 5)

Times == {Epoch, Now2023}

\* The time of a HardDeletionTime::Timestamp selector: 5_000_000_000 ns.
SpecificTime == TimeNs(5, 0)

HardDeletionTimes ==
    {[sel |-> "Never"], [sel |-> "Now"], [sel |-> "Default"],
     [sel |-> "Timestamp", time |-> SpecificTime]}

DbNames == {"a"}

TableNames == {"x"}

GenDurations == {10, 20}

(***************************************************************************)
(* Catalog batches as the API composes them.                               *)
(***************************************************************************)
\* CatalogBatch::database
DatabaseBatch(time_ns, database_id, database_name, ops) ==
    [kind |-> "Database", database_id |-> database_id, database_name |-> database_name,
     ops |-> ops, time_ns |-> time_ns]

\* CatalogBatch::generation
GenerationBatch(time_ns, ops) == [kind |-> "Generation", ops |-> ops, time_ns |-> time_ns]

NoBatch == [kind |-> "None"]

ComposeOk(st, batch) == [kind |-> "ok", err |-> "", st |-> st, batch |-> batch]

ComposeErr(st, err) == [kind |-> "err", err |-> err, st |-> st, batch |-> NoBatch]

\* HardDeletionTime::as_time
HardDeletionAsTime(hard, now) ==
    CASE hard.sel = "Never"     -> NoneOpt
      [] hard.sel = "Now"       -> Some(now)
      [] hard.sel = "Default"   -> Some(TimeAddSecs(now, DEFAULT_HARD_DELETE_DURATION))
      [] hard.sel = "Timestamp" -> Some(hard.time)

\* usize::MAX on a 64-bit target is 2^64 - 1; it is written as the greatest
\* number TLC has, which no count of databases or tables reaches either.
UsizeMax == 2147483647

\* impl Default for CatalogLimits: NUM_DBS_LIMIT and NUM_TABLES_LIMIT
CatalogLimitsDefault == [num_dbs |-> UsizeMax, num_tables |-> UsizeMax]

VARIABLE limits     \* Catalog::limits

\* Faulty variant: soft-deleted databases are counted as well.
database_count_with_deleted(st) ==
    Cardinality({id \in DOMAIN st.databases.repo :
                    st.databases.repo[id].name # INTERNAL_DB_NAME})

\* InnerCatalog::database_count: the databases that are not deleted and are
\* not the internal database.
database_count(st) ==
    Cardinality({id \in DOMAIN st.databases.repo :
                    /\ ~st.databases.repo[id].deleted
                    /\ st.databases.repo[id].name # INTERNAL_DB_NAME})

\* InnerCatalog::table_count: the sum of DatabaseSchema::table_count, the
\* tables that are not deleted, over every database.
table_count(st) ==
    Cardinality(UNION {{<<db_id, table_id>> :
                           table_id \in {t \in DOMAIN st.databases.repo[db_id].tables.repo :
                                            ~st.databases.repo[db_id].tables.repo[t].deleted}} :
                       db_id \in DOMAIN st.databases.repo})

\* Catalog::db_or_create followed by create_database's check: an existing
\* name is AlreadyExists and a count of databases at the limit is
\* TooManyDbs; otherwise the next database id is handed out (the catalog's
\* next_id moves on at once) and a CreateDatabase batch composed.
ComposeCreateDatabase(st, name, now) ==
    IF IsSome(RepoGetByName(st.databases, name))
    THEN ComposeErr(st, "AlreadyExists")
    ELSE IF database_count(st) >= limits.num_dbs
    THEN ComposeErr(st, "TooManyDbs")
    ELSE LET db_id == st.databases.next_id
         IN  ComposeOk([st EXCEPT !.databases = RepoIncrementNextId(st.databases)],
                       DatabaseBatch(now, db_id, name,
                           <<[op |-> "CreateDatabase", database_id |-> db_id,
                              database_name |-> name, retention_period |-> NoneOpt]>>))

\* Catalog::create_table with one tag t1 and one field f1: the table gets
\* the database's next table id and the columns t1, f1 and time.
ComposeCreateTable(st, db_name, table_name, now) ==
    LET db == RepoGetByName(st.databases, db_name)
    IN  IF ~IsSome(db) \/ (IsSome(db) /\ db[1].deleted)
        THEN ComposeErr(st, "NotFound")
        ELSE IF RepoContainsName(db[1].tables, table_name)
        THEN ComposeErr(st, "AlreadyExists")
        ELSE IF table_count(st) >= limits.num_tables
        THEN ComposeErr(st, "TooManyTables")
        ELSE ComposeOk(st,
                 DatabaseBatch(now, db[1].id, db[1].name,
                     <<[op |-> "CreateTable",
                        table_id |-> db[1].tables.next_id,
                        table_name |-> table_name,
                        field_definitions |->
                            <<[id |-> 0, name |-> "t1", data_type |-> "Tag"],
                              [id |-> 1, name |-> "f1", data_type |-> "String"],
                              [id |-> 2, name |-> TIME_COLUMN_NAME, data_type |-> "Timestamp"]>>,
                        key |-> <<0>>]>>))

\* The hard delete time a soft delete asks for: Default keeps a hard delete
\* time that is already set.
RequestedHardDeleteTime(existing, hard, now) ==
    IF hard.sel = "Default" /\ IsSome(existing)
    THEN existing
    ELSE HardDeletionAsTime(hard, now)

\* Catalog::soft_delete_database
ComposeSoftDeleteDatabase(st, name, hard, now) ==
    IF name = INTERNAL_DB_NAME
    THEN ComposeErr(st, "CannotDeleteInternalDatabase")
    ELSE LET db == RepoGetByName(st.databases, name)
         IN  IF ~IsSome(db)
             THEN ComposeErr(st, "NotFound")
             ELSE LET hard_time == RequestedHardDeleteTime(db[1].hard_delete_time, hard, now)
                  IN  IF db[1].deleted /\ db[1].hard_delete_time = hard_time
                      THEN ComposeErr(st, "AlreadyDeleted")
                      ELSE ComposeOk(st,
                               DatabaseBatch(now, db[1].id, db[1].name,
                                   <<[op |-> "SoftDeleteDatabase",
                                      database_id |-> db[1].id,
                                      database_name |-> db[1].name,
                                      deletion_time |-> now,
                                      hard_deletion_time |-> hard_time]>>))

\* Catalog::soft_delete_table
ComposeSoftDeleteTable(st, db_name, table_name, hard, now) ==
    LET db == RepoGetByName(st.databases, db_name)
    IN  IF ~IsSome(db)
        THEN ComposeErr(st, "NotFound")
        ELSE LET table == RepoGetByName(db[1].tables, table_name)
             IN  IF ~IsSome(table)
                 THEN ComposeErr(st, "NotFound")
                 ELSE LET hard_time == RequestedHardDeleteTime(table[1].hard_delete_time,
                                                               hard, now)
                      IN  IF table[1].deleted /\ table[1].hard_delete_time = hard_time
                          THEN ComposeErr(st, "AlreadyDeleted")
                          ELSE ComposeOk(st,
                                   DatabaseBatch(now, db[1].id, db[1].name,
                                       <<[op |-> "SoftDeleteTable",
                                          database_id |-> db[1].id,
                                          database_name |-> db[1].name,
                                          table_id |-> table[1].table_id,
                                          table_name |-> table[1].table_name,
                                          deletion_time |-> now,
                                          hard_deletion_time |-> hard_time]>>))

\* Faulty variant: no level is reported to have a duration.
get_generation_duration_unset(st, level) == NoneOpt

\* Catalog::get_generation_duration
get_generation_duration(st, level) ==
    IF level \in DOMAIN st.generation_config
    THEN Some(st.generation_config[level])
    ELSE NoneOpt

\* Catalog::set_gen1_duration
ComposeSetGen1Duration(st, duration, now) ==
    LET existing == get_generation_duration(st, 1)
    IN  IF IsSome(existing)
        THEN IF existing[1] = duration
             THEN ComposeErr(st, "AlreadyExists")
             ELSE ComposeErr(st, "CannotChangeGenerationDuration")
        ELSE ComposeOk(st, GenerationBatch(now,
                 <<[op |-> "SetGenerationDuration", level |-> 1, duration |-> duration]>>))

\* CatalogBatch::delete
DeleteBatch(time_ns, ops) == [kind |-> "Delete", ops |-> ops, time_ns |-> time_ns]

\* Catalog::hard_delete_database: the database is named by its id; the
\* internal database is refused.
ComposeHardDeleteDatabase(st, db_id, now) ==
    LET db == RepoGetById(st.databases, db_id)
    IN  IF ~IsSome(db)
        THEN ComposeErr(st, "NotFound")
        ELSE IF db[1].name = INTERNAL_DB_NAME
        THEN ComposeErr(st, "CannotDeleteInternalDatabase")
        ELSE ComposeOk(st, DeleteBatch(now, <<[op |-> "DeleteDatabase", db_id |-> db_id]>>))

\* Catalog::hard_delete_table
ComposeHardDeleteTable(st, db_id, table_id, now) ==
    LET db == RepoGetById(st.databases, db_id)
    IN  IF ~IsSome(db)
        THEN ComposeErr(st, "NotFound")
        ELSE IF ~IsSome(RepoGetById(db[1].tables, table_id))
        THEN ComposeErr(st, "NotFound")
        ELSE ComposeOk(st, DeleteBatch(now, <<[op |-> "DeleteTable", db_id |-> db_id,
                                               table_id |-> table_id]>>))

\* The batch creator closure of an API call, run against the catalog st.
\* The node batch with one op for the node of this name: it carries the
\* catalog id of the node, which for a new node is the next id.
NodeBatchOf(st, name, op) ==
    [kind |-> "Node", time_ns |-> Epoch,
     node_catalog_id |-> IF IsSome(RepoNameToId(st.nodes, name))
                         THEN RepoNameToId(st.nodes, name)[1]
                         ELSE st.nodes.next_id,
     node_id |-> name, ops |-> <<op>>]

\* Catalog::register_node
ComposeRegisterNode(st, node_id, instance_id) ==
    LET existing == RepoGetByName(st.nodes, node_id)
    IN  IF IsSome(existing) /\ existing[1].instance_id # instance_id
        THEN ComposeErr(st, "InvalidNodeRegistration")
        ELSE ComposeOk(st, NodeBatchOf(st, node_id,
                 [op |-> "RegisterNode", node_id |-> node_id, instance_id |-> instance_id,
                  registered_time_ns |-> Epoch, core_count |-> 1, mode |-> "Core"]))

\* Catalog::update_node_state_stopped
ComposeStopNode(st, node_id, now) ==
    IF ~IsSome(RepoGetByName(st.nodes, node_id))
    THEN ComposeErr(st, "NotFound")
    ELSE ComposeOk(st, NodeBatchOf(st, node_id,
             [op |-> "StopNode", node_id |-> node_id, stopped_time_ns |-> now]))

\* CatalogBatch::Token
TokenBatch(ops) == [kind |-> "Token", ops |-> ops, time_ns |-> Epoch]

\* Catalog::create_admin_token(regenerate = false) and
\* create_named_admin_token_with_permission: a name the repository has is
\* TokenNameAlreadyExists; otherwise the next token id is handed out (the
\* repository's next_id moves on at once) and a CreateAdminToken batch is
\* composed.
ComposeCreateAdminToken(st, name, hash) ==
    IF RepoContainsName(st.tokens.repo, name)
    THEN ComposeErr(st, "TokenNameAlreadyExists")
    ELSE LET token_id == st.tokens.repo.next_id
         IN  ComposeOk([st EXCEPT !.tokens.repo = RepoIncrementNextId(st.tokens.repo)],
                       TokenBatch(<<[op |-> "CreateAdminToken",
                                     token_id |-> token_id, name |-> name,
                                     hash |-> hash, created_at |-> 0,
                                     expiry |-> NoneOpt]>>))

\* Catalog::create_admin_token(regenerate = true)
ComposeRegenerateAdminToken(st, hash) ==
    LET default_admin_token == RepoGetByName(st.tokens.repo, DEFAULT_OPERATOR_TOKEN_NAME)
    IN  IF ~IsSome(default_admin_token)
        THEN ComposeErr(st, "MissingAdminTokenToUpdate")
        ELSE ComposeOk(st, TokenBatch(<<[op |-> "RegenerateAdminToken",
                                         token_id |-> default_admin_token[1].id,
                                         hash |-> hash, updated_at |-> 1]>>))

\* Catalog::delete_token
ComposeDeleteToken(st, token_name) ==
    IF token_name = DEFAULT_OPERATOR_TOKEN_NAME
    THEN ComposeErr(st, "CannotDeleteOperatorToken")
    ELSE IF ~RepoContainsName(st.tokens.repo, token_name)
    THEN ComposeErr(st, "NotFound")
    ELSE ComposeOk(st, TokenBatch(<<[op |-> "DeleteToken", token_name |-> token_name]>>))

Compose(st, req, now) ==
    CASE req.api = "create_database" -> ComposeCreateDatabase(st, req.name, now)
      [] req.api = "create_table" -> ComposeCreateTable(st, req.db, req.name, now)
      [] req.api = "soft_delete_database" ->
             ComposeSoftDeleteDatabase(st, req.name, req.hard, now)
      [] req.api = "soft_delete_table" ->
             ComposeSoftDeleteTable(st, req.db, req.name, req.hard, now)
      [] req.api = "set_gen1_duration" -> ComposeSetGen1Duration(st, req.duration, now)
      [] req.api = "hard_delete_database" -> ComposeHardDeleteDatabase(st, req.db_id, now)
      [] req.api = "hard_delete_table" ->
             ComposeHardDeleteTable(st, req.db_id, req.table_id, now)
      [] req.api = "register_node" ->
             ComposeRegisterNode(st, req.node_id, req.instance_id)
      [] req.api = "update_node_state_stopped" -> ComposeStopNode(st, req.node_id, now)
      [] req.api = "create_admin_token" -> ComposeCreateAdminToken(st, req.name, req.hash)
      [] req.api = "regenerate_admin_token" -> ComposeRegenerateAdminToken(st, req.hash)
      [] req.api = "delete_token" -> ComposeDeleteToken(st, req.token_name)

(***************************************************************************)
(* The state of the program.                                               *)
(***************************************************************************)
VARIABLES
    inner,          \* Catalog::inner, the in-memory InnerCatalog
    permit_locked,  \* whether CATALOG_WRITE_PERMIT is locked
    permit_value,   \* the sequence number kept in CATALOG_WRITE_PERMIT
    pc,             \* per writer: its position in catalog_update_with_retry
    req,            \* per writer: the API call it is making or made last
    observed,       \* per writer: the sequence its batch was composed against
    first_observed, \* per writer: the sequence observed when the call began
    batch,          \* per writer: the batch composed
    stamped,        \* per writer: the sequence of its OrderedCatalogBatch
    result,         \* per writer: the outcome of its call ("pending" while it runs)
    log,            \* the object store: sequence -> persisted catalog batch
    checkpoint,     \* the object store: the latest checkpoint
    history,        \* every ordered batch applied so far, in order of application
    restarts,       \* the number of restarts so far
    config,         \* CompactionService::config
    index,          \* WriteBuffer::parquet_files: (db id, table id) -> its files
    object_store,   \* the object store: the paths of the Parquet files in it
    service,        \* the task of CompactionService::start
    join_set,       \* the JoinSet of the compaction cycle: the jobs spawned
    shutdown,       \* whether the shutdown token has been signalled
    tick,           \* whether the interval of the compaction service is due
    persister,      \* a call of Persister::load_snapshots and the snapshots stored
    http            \* a call of validate_db_name

vars == <<inner, limits, permit_locked, permit_value, pc, req, observed, first_observed,
          batch, stamped, result, log, checkpoint, history, restarts,
          config, index, object_store, service, join_set, shutdown, tick, persister, http>>

\* The state of the catalog and of its writers.
catalogVars == <<inner, limits, permit_locked, permit_value, pc, req, observed, first_observed,
                 batch, stamped, result, log, checkpoint, history, restarts>>

\* The state of the write path: compaction, snapshots and HTTP validation.
writeVars == <<limits, config, index, object_store, service, join_set, shutdown, tick,
               persister, http>>

writerVars == <<pc, req, observed, first_observed, batch, stamped, result>>

storeVars == <<log, checkpoint>>

NoReq == [api |-> "none"]

\* OrderedCatalogBatch::new
OrderedCatalogBatch(catalog_batch, sequence) ==
    [sequence |-> sequence, batch |-> catalog_batch]

\* The batch that create_internal_db composes on an empty catalog.
InternalDbBatch == ComposeCreateDatabase(InnerCatalogNew, INTERNAL_DB_NAME, TimeNs(0, 0)).batch

\* The catalog after Catalog::new on an empty object store: create_internal_db
\* has handed out database id 0 and its batch was applied with sequence 1.
InitialCatalog ==
    apply_catalog_batch(
        ComposeCreateDatabase(InnerCatalogNew, INTERNAL_DB_NAME, TimeNs(0, 0)).st,
        InternalDbBatch, 1).st

(***************************************************************************)
(* Loading the catalog on startup: the checkpoint, then every log entry    *)
(* with a greater sequence in ascending order, each applied with its own   *)
(* sequence number.                                                        *)
(***************************************************************************)
RECURSIVE LoadFrom(_, _)
RECURSIVE LoadNext(_, _)
LoadFrom(st, entries) ==
    IF (st.sequence + 1) \notin DOMAIN entries
    THEN st
    ELSE LoadNext(apply_catalog_batch(st, entries[st.sequence + 1], st.sequence + 1),
                  entries)

\* Loading goes on after the log entry whose application returned r.
LoadNext(r, entries) ==
    IF r.kind = "ok" /\ r.updated THEN LoadFrom(r.st, entries) ELSE r.st

\* ObjectStoreCatalog::load_or_create_catalog
LoadCatalog(ckpt, entries) == LoadFrom(ckpt, entries)

\* The entries of the log that loading from ckpt applies.
RECURSIVE ReplayedEntries(_, _)
ReplayedEntries(seq, entries) ==
    IF (seq + 1) \notin DOMAIN entries
    THEN << >>
    ELSE <<OrderedCatalogBatch(entries[seq + 1], seq + 1)>> \o ReplayedEntries(seq + 1, entries)

\* impl Default for CompactionConfig, without the interval.
CompactionConfigDefault ==
    [enabled |-> TRUE, max_files_per_run |-> 100, min_files_for_compaction |-> 10,
     generation_durations |-> << >>]

\* The task of CompactionService::start before it is first polled: where it
\* is, the jobs of the cycle still to be spawned, max_concurrent and
\* completed_jobs of the cycle, what identify_compaction_jobs returned last
\* and the number of cycles begun.
ServiceNew ==
    [pc |-> "start", jobs |-> << >>, max_concurrent |-> 0, completed_jobs |-> 0,
     identified |-> [kind |-> "none", jobs |-> << >>], cycles |-> 0]

\* The compaction service before its task is polled, on a node that has
\* persisted no file; no snapshots are being loaded and no database name
\* validated.
WriteIdle ==
    /\ config = CompactionConfigDefault
    /\ index = << >>
    /\ object_store = {}
    /\ service = ServiceNew
    /\ join_set = {}
    /\ shutdown = FALSE
    /\ tick = FALSE
    /\ persister = [pc |-> "idle"]
    /\ http = [pc |-> "idle"]

(***************************************************************************)
(* Init: the state after Catalog::new on an empty object store: the        *)
(* catalog was created at sequence 0 and create_internal_db has run.       *)
(***************************************************************************)
Init ==
    /\ limits = CatalogLimitsDefault
    /\ inner = InitialCatalog
    /\ permit_locked = FALSE
    /\ permit_value = 1
    /\ pc = [w \in Writers |-> "idle"]
    /\ req = [w \in Writers |-> NoReq]
    /\ observed = [w \in Writers |-> 0]
    /\ first_observed = [w \in Writers |-> 0]
    /\ batch = [w \in Writers |-> NoBatch]
    /\ stamped = [w \in Writers |-> 0]
    /\ result = [w \in Writers |-> "none"]
    /\ log = (1 :> InternalDbBatch)
    /\ checkpoint = InnerCatalogNew
    /\ history = <<OrderedCatalogBatch(InternalDbBatch, 1)>>
    /\ restarts = 0
    /\ WriteIdle

(***************************************************************************)
(* The API calls a writer may make in catalog state st.                    *)
(***************************************************************************)
CurrentDbNames(st) ==
    {st.databases.repo[id].name : id \in DOMAIN st.databases.repo} \ {INTERNAL_DB_NAME}

CurrentTableNames(st, db_name) ==
    LET db == RepoGetByName(st.databases, db_name)
    IN  IF IsSome(db)
        THEN {db[1].tables.repo[id].table_name : id \in DOMAIN db[1].tables.repo}
        ELSE {}

\* The calls of the writers that run concurrently.
Requests(st) ==
    {[api |-> "create_database", name |-> n] : n \in DbNames}
    \cup {[api |-> "create_table", db |-> d, name |-> t] : d \in DbNames, t \in TableNames}
    \cup {[api |-> "soft_delete_database", name |-> n, hard |-> [sel |-> "Never"]] :
              n \in CurrentDbNames(st)}
    \cup {[api |-> "set_gen1_duration", duration |-> d] : d \in GenDurations}

\* The calls of a writer that creates a database and a table and soft-deletes
\* them, by their current names, with every selector.
SoftDeleteRequests(st) ==
    {[api |-> "create_database", name |-> n] : n \in DbNames}
    \cup {[api |-> "create_table", db |-> d, name |-> t] : d \in DbNames, t \in TableNames}
    \cup {[api |-> "soft_delete_database", name |-> n, hard |-> h] :
         n \in CurrentDbNames(st), h \in HardDeletionTimes}
    \cup UNION {{[api |-> "soft_delete_table", db |-> d, name |-> t, hard |-> h] :
                     t \in CurrentTableNames(st, d), h \in HardDeletionTimes} :
                d \in CurrentDbNames(st)}

(***************************************************************************)
(* Catalog::catalog_update_with_retry, step by step.                       *)
(***************************************************************************)
\* The sequence number is read and the batch creator closure is run for the
\* request r, with the result c.  An error of the closure ends the call;
\* otherwise the batch goes on to the verification.
ComposeStep(w, r, c, first, max) ==
    /\ c.st.databases.next_id <= MaxDbId + 1
    /\ c.st.tokens.repo.next_id <= MaxTokenId + 1
    /\ c.kind = "ok" => inner.sequence < max
    /\ inner' = c.st
    /\ req' = [req EXCEPT ![w] = r]
    /\ batch' = [batch EXCEPT ![w] = c.batch]
    /\ stamped' = [stamped EXCEPT ![w] = 0]
    /\ IF c.kind = "ok"
       THEN /\ pc' = [pc EXCEPT ![w] = "verify"]
            /\ result' = [result EXCEPT ![w] = "pending"]
            /\ observed' = [observed EXCEPT ![w] = inner.sequence]
            /\ first_observed' = [first_observed EXCEPT ![w] = first]
       ELSE /\ pc' = [pc EXCEPT ![w] = "idle"]
            /\ result' = [result EXCEPT ![w] = c.err]
            /\ observed' = [observed EXCEPT ![w] = 0]
            /\ first_observed' = [first_observed EXCEPT ![w] = 0]
    /\ UNCHANGED <<permit_locked, permit_value, log, checkpoint, history, restarts>>
    /\ UNCHANGED writeVars

\* A writer begins an API call.
Call(w, reqs, times, max) ==
    /\ pc[w] = "idle"
    /\ \E r \in reqs, now \in times :
           ComposeStep(w, r, Compose(inner, r, now), inner.sequence, max)

\* After Prompt::Retry the loop runs the batch creator closure again.
Recompose(w, times, max) ==
    /\ pc[w] = "retry"
    /\ \E now \in times :
           ComposeStep(w, req[w], Compose(inner, req[w], now), first_observed[w], max)

\* Faulty variant: the next sequence number is the current one.
SeqNextStuck(sequence) == sequence

\* CatalogSequenceNumber::next
SeqNext(sequence) == sequence + 1

\* Faulty variant: the observed sequence is not compared at all.
VerifySequenceAny(sequence, current) == TRUE

\* Faulty variant: a batch composed against an older sequence is let through.
VerifySequenceStale(sequence, current) == sequence <= current

\* The comparison of get_permit_and_verify_catalog_batch: the batch goes on
\* when the sequence it was composed against is the catalog's.
VerifySequence(sequence, current) == sequence = current

\* Faulty variant: the lock is granted even while it is held.
PermitAvailableAlways == TRUE

\* CATALOG_WRITE_PERMIT.lock().await completes when the mutex is free.
PermitAvailable == ~permit_locked

\* Faulty variant: the permit stays locked when Prompt::Retry is returned.
VerifyKeepsPermitOnRetry(w) ==
    /\ pc[w] = "verify"
    /\ PermitAvailable
    /\ IF ~VerifySequence(observed[w], inner.sequence)
       THEN /\ pc' = [pc EXCEPT ![w] = "retry"]
            /\ permit_locked' = TRUE
            /\ UNCHANGED <<permit_value, stamped>>
       ELSE /\ permit_value' = SeqNext(inner.sequence)
            /\ permit_locked' = TRUE
            /\ stamped' = [stamped EXCEPT ![w] = SeqNext(inner.sequence)]
            /\ pc' = [pc EXCEPT ![w] = "persist"]
    /\ UNCHANGED <<inner, req, observed, first_observed, batch, result, log,
                   checkpoint, history, restarts>>
    /\ UNCHANGED writeVars

\* Catalog::get_permit_and_verify_catalog_batch: the permit is acquired; on
\* a sequence mismatch Prompt::Retry is returned and the permit dropped,
\* otherwise the permit holds the next sequence number and stays held.
Verify(w) ==
    /\ pc[w] = "verify"
    /\ PermitAvailable
    /\ IF ~VerifySequence(observed[w], inner.sequence)
       THEN /\ pc' = [pc EXCEPT ![w] = "retry"]
            /\ UNCHANGED <<permit_locked, permit_value, stamped>>
       ELSE /\ permit_value' = SeqNext(inner.sequence)
            /\ permit_locked' = TRUE
            /\ stamped' = [stamped EXCEPT ![w] = SeqNext(inner.sequence)]
            /\ pc' = [pc EXCEPT ![w] = "persist"]
    /\ UNCHANGED <<inner, req, observed, first_observed, batch, result, log,
                   checkpoint, history, restarts>>
    /\ UNCHANGED writeVars

\* The ordered batch is written to the log of the object store.
Persist(w) ==
    /\ pc[w] = "persist"
    /\ log' = (stamped[w] :> batch[w]) @@ log
    /\ pc' = [pc EXCEPT ![w] = "apply"]
    /\ UNCHANGED <<inner, permit_locked, permit_value, req, observed, first_observed,
                   batch, stamped, result, checkpoint, history, restarts>>
    /\ UNCHANGED writeVars

\* The write to the object store fails: the call returns the error and the
\* permit is dropped.
PersistFail(w) ==
    /\ pc[w] = "persist"
    /\ pc' = [pc EXCEPT ![w] = "idle"]
    /\ result' = [result EXCEPT ![w] = "ObjectStore"]
    /\ permit_locked' = FALSE
    /\ observed' = [observed EXCEPT ![w] = 0]
    /\ first_observed' = [first_observed EXCEPT ![w] = 0]
    /\ batch' = [batch EXCEPT ![w] = NoBatch]
    /\ stamped' = [stamped EXCEPT ![w] = 0]
    /\ UNCHANGED <<inner, permit_value, req, log, checkpoint, history, restarts>>
    /\ UNCHANGED writeVars

\* The two .expect(..) of apply_ordered_catalog_batch on the result r of
\* apply_catalog_batch.
ExpectApplied(r) ==
    IF r.kind # "ok"
    THEN ApplyPanic(r.st, "ordered catalog batch should succeed when applied")
    ELSE IF ~r.updated
    THEN ApplyPanic(r.st, "ordered catalog batch should contain changes")
    ELSE r

\* Catalog::apply_ordered_catalog_batch: its outcome for the ordered batch
\* ob.  It panics when the batch is out of order, when applying it fails
\* and when it changes nothing.
apply_ordered_catalog_batch(st, ob) ==
    IF ob.sequence # st.sequence + 1
    THEN ApplyPanic(st, "catalog batch received out of order")
    ELSE ExpectApplied(apply_catalog_batch(st, ob.batch, ob.sequence))

\* The checkpoint written after the batch with this sequence was applied to
\* the catalog st.
CheckpointAfter(st, ckpt) ==
    IF st.sequence % CheckpointInterval = 0 THEN st ELSE ckpt

\* The end of the call of writer w, whose apply_ordered_catalog_batch had
\* the outcome r.
ApplyOutcome(w, r) ==
    /\ inner' = r.st
    /\ IF r.kind = "ok"
       THEN /\ pc' = [pc EXCEPT ![w] = "idle"]
            /\ result' = [result EXCEPT ![w] = "Ok"]
            /\ history' = Append(history, OrderedCatalogBatch(batch[w], stamped[w]))
            /\ checkpoint' = CheckpointAfter(r.st, checkpoint)
            /\ observed' = [observed EXCEPT ![w] = 0]
            /\ batch' = [batch EXCEPT ![w] = NoBatch]
       ELSE /\ pc' = [pc EXCEPT ![w] = "panicked"]
            /\ result' = [result EXCEPT ![w] = "panic"]
            /\ UNCHANGED <<history, checkpoint, observed, batch>>
    /\ permit_locked' = FALSE
    /\ UNCHANGED <<permit_value, req, first_observed, stamped, log, restarts>>
    /\ UNCHANGED writeVars

\* The persisted batch is applied to the in-memory catalog, a checkpoint is
\* written when one is due, and the permit is dropped.
Apply(w) ==
    /\ pc[w] = "apply"
    /\ ApplyOutcome(w, apply_ordered_catalog_batch(inner,
                           OrderedCatalogBatch(batch[w], stamped[w])))

\* The log entries that the checkpoint covers are deleted.
GcLog ==
    /\ \E s \in DOMAIN log : s <= checkpoint.sequence
    /\ log' = [s \in {t \in DOMAIN log : t > checkpoint.sequence} |-> log[s]]
    /\ UNCHANGED <<inner, permit_locked, permit_value, writerVars, checkpoint, history,
                   restarts>>
    /\ UNCHANGED writeVars

\* The end of Catalog::new_with_checkpoint_interval with the catalog loaded
\* from the object store: create_internal_db creates the internal database
\* when the loaded catalog has none (AlreadyExists is ignored), and every
\* writer and the permit start afresh.
StartWith(loaded) ==
    LET c       == ComposeCreateDatabase(loaded, INTERNAL_DB_NAME, Epoch)
        created == c.kind = "ok"
    IN  /\ inner' = IF created
                    THEN apply_catalog_batch(c.st, c.batch, SeqNext(loaded.sequence)).st
                    ELSE loaded
        /\ log' = IF created THEN (SeqNext(loaded.sequence) :> c.batch) @@ log ELSE log
        /\ history' = history \o ReplayedEntries(Len(history), log')
        /\ restarts' = restarts + 1
        /\ permit_locked' = FALSE
        /\ permit_value' = 0
        /\ pc' = [w \in Writers |-> "idle"]
        /\ req' = [w \in Writers |-> NoReq]
        /\ observed' = [w \in Writers |-> 0]
        /\ first_observed' = [w \in Writers |-> 0]
        /\ batch' = [w \in Writers |-> NoBatch]
        /\ stamped' = [w \in Writers |-> 0]
        /\ result' = [w \in Writers |-> "none"]
        /\ UNCHANGED <<checkpoint, writeVars>>

\* The process stops and starts again (Catalog::new_with_checkpoint_interval
\* on the same object store): the catalog is loaded from the checkpoint and
\* the log.
Restart ==
    /\ restarts < MaxRestarts
    /\ StartWith(LoadCatalog(checkpoint, log))

Next ==
    \/ \E w \in Writers : Call(w, Requests(inner), {Now2023}, MaxSeq)
    \/ \E w \in Writers : Recompose(w, {Now2023}, MaxSeq)
    \/ \E w \in Writers : Verify(w)
    \/ \E w \in Writers : Persist(w)
    \/ \E w \in Writers : PersistFail(w)
    \/ \E w \in Writers : Apply(w)
    \/ GcLog
    \/ Restart

Spec == Init /\ [][Next]_vars

\* One writer that makes its calls one after the other, at any of the times.
NextSoftDelete ==
    \/ Call(1, SoftDeleteRequests(inner), Times, MaxDeleteSeq)
    \/ Verify(1)
    \/ Persist(1)
    \/ Apply(1)

SpecSoftDelete == Init /\ [][NextSoftDelete]_vars

\* The calls of a writer that creates a database and a table, soft-deletes
\* the database and hard-deletes databases and tables by id, the internal
\* database (id 0) included.
HardDeleteRequests(st) ==
    {[api |-> "create_database", name |-> n] : n \in DbNames}
    \cup {[api |-> "create_table", db |-> d, name |-> t] : d \in DbNames, t \in TableNames}
    \cup {[api |-> "soft_delete_database", name |-> n, hard |-> [sel |-> "Never"]] :
              n \in CurrentDbNames(st)}
    \cup {[api |-> "hard_delete_database", db_id |-> i] : i \in 0..MaxDbId}
    \cup {[api |-> "hard_delete_table", db_id |-> i, table_id |-> 0] : i \in 0..MaxDbId}

\* One writer that makes these calls one after the other.
NextHardDelete ==
    \/ Call(1, HardDeleteRequests(inner), {Now2023}, MaxDeleteSeq)
    \/ Verify(1)
    \/ Persist(1)
    \/ Apply(1)

SpecHardDelete == Init /\ [][NextHardDelete]_vars

(***************************************************************************)
(* Batches handed straight to InnerCatalog::apply_catalog_batch, as the     *)
(* unit tests of the catalog do: batches of every kind with up to           *)
(* MaxBatchOps ops, applied with the next sequence number.                  *)
(***************************************************************************)
\* The number of ops in a batch applied directly.
MaxBatchOps == 2

\* No batch is applied directly once the sequence has reached MaxApplySeq.
MaxApplySeq == 2

\* The non-empty sequences of at most MaxBatchOps elements of S.
OpsUpTo(S) == UNION {[1..n -> S] : n \in 1..MaxBatchOps}

NodeOps ==
    {[op |-> "RegisterNode", node_id |-> "n1", instance_id |-> i,
      registered_time_ns |-> Epoch, core_count |-> 1, mode |-> "Core"] : i \in {"i1", "i2"}}

NodeBatches ==
    {[kind |-> "Node", time_ns |-> Epoch, node_catalog_id |-> 0, node_id |-> "n1",
      ops |-> ops] : ops \in OpsUpTo(NodeOps)}

TokenOps ==
    {[op |-> "CreateAdminToken", token_id |-> 0, name |-> DEFAULT_OPERATOR_TOKEN_NAME,
      hash |-> h, created_at |-> 0, expiry |-> NoneOpt] : h \in {"h1", "h2"}}
    \cup {[op |-> "DeleteToken", token_name |-> DEFAULT_OPERATOR_TOKEN_NAME]}

TokenBatches ==
    {[kind |-> "Token", time_ns |-> Epoch, ops |-> ops] : ops \in OpsUpTo(TokenOps)}

DeleteOps ==
    {[op |-> "DeleteDatabase", db_id |-> 1], [op |-> "DeleteTable", db_id |-> 1, table_id |-> 0]}

DeleteBatches ==
    {[kind |-> "Delete", time_ns |-> Epoch, ops |-> ops] : ops \in OpsUpTo(DeleteOps)}

GenerationOps ==
    {[op |-> "SetGenerationDuration", level |-> l, duration |-> d] :
        l \in {1, 2}, d \in GenDurations}

GenerationBatches == {GenerationBatch(Epoch, ops) : ops \in OpsUpTo(GenerationOps)}

\* The ops on database 1: its creation, the creation of table 0 with the
\* columns t1, f1 and time, a new field f2, and f1 with another type.
DatabaseOps ==
    {[op |-> "CreateDatabase", database_id |-> 1, database_name |-> "a",
      retention_period |-> NoneOpt],
     ComposeCreateTable(
         [InnerCatalogNew EXCEPT !.databases =
              RepoInsert(RepositoryNew, 1, "a", DatabaseSchemaNew(1, "a")).repo],
         "a", "x", Epoch).batch.ops[1],
     [op |-> "AddFields", database_id |-> 1, database_name |-> "a", table_id |-> 0,
      table_name |-> "x",
      field_definitions |-> <<[id |-> 3, name |-> "f2", data_type |-> "Float"]>>],
     [op |-> "AddFields", database_id |-> 1, database_name |-> "a", table_id |-> 0,
      table_name |-> "x",
      field_definitions |-> <<[id |-> 1, name |-> "f1", data_type |-> "Integer"]>>]}

DatabaseBatches == {DatabaseBatch(Epoch, 1, "a", ops) : ops \in OpsUpTo(DatabaseOps)}

\* The state after apply_catalog_batch returned r for the batch b.
DirectOutcome(b, r) ==
    /\ inner' = r.st
    /\ batch' = [batch EXCEPT ![1] = b]
    /\ result' = [result EXCEPT ![1] =
           CASE r.kind = "ok" /\ r.updated  -> "Ok"
             [] r.kind = "ok" /\ ~r.updated -> "Unchanged"
             [] r.kind = "panic"            -> "panic"
             [] OTHER                       -> r.err]
    /\ pc' = [pc EXCEPT ![1] = IF r.kind = "panic" THEN "panicked" ELSE "idle"]
    /\ history' = IF r.kind = "ok" /\ r.updated
                  THEN Append(history, OrderedCatalogBatch(b, SeqNext(inner.sequence)))
                  ELSE history
    /\ UNCHANGED <<permit_locked, permit_value, req, observed, first_observed, stamped,
                   log, checkpoint, restarts>>
    /\ UNCHANGED writeVars

\* A call of InnerCatalog::apply_catalog_batch with the batch b and the next
\* sequence number; the outcome is kept in result[1] and the batch in
\* batch[1].
ApplyDirect(b) ==
    /\ pc[1] = "idle"
    /\ inner.sequence < MaxApplySeq
    /\ DirectOutcome(b, apply_catalog_batch(inner, b, SeqNext(inner.sequence)))

\* No table batch is applied once the sequence has reached MaxTableSeq.
MaxTableSeq == 6

\* A FieldDefinition: the id, the name and the type of a column.
Field(id, name, data_type) == [id |-> id, name |-> name, data_type |-> data_type]

\* A CreateTableLog for table 0 of database 1.
CreateTableOp(fields, key) ==
    [op |-> "CreateTable", database_id |-> 1, database_name |-> "a", table_id |-> 0,
     table_name |-> "x", field_definitions |-> fields, key |-> key]

\* An AddFieldsLog for table 0 of database 1.
AddFieldsOp(fields) ==
    [op |-> "AddFields", database_id |-> 1, database_name |-> "a", table_id |-> 0,
     table_name |-> "x", field_definitions |-> fields]

\* The ops that create database 1 and its table 0 (empty, with one tag, or
\* with two tags in the key order t2, t1) and that add columns to it. A
\* column name has one id (t1 0, f1 1, time 2, f2 3, t2 4) and one type,
\* but for f1, which is a String and is also offered as an Integer.
TableOps ==
    {[op |-> "CreateDatabase", database_id |-> 1, database_name |-> "a",
      retention_period |-> NoneOpt],
     CreateTableOp(<< >>, << >>),
     CreateTableOp(<<Field(0, "t1", "Tag"), Field(1, "f1", "String"),
                     Field(2, "time", "Timestamp")>>, <<0>>),
     CreateTableOp(<<Field(4, "t2", "Tag"), Field(0, "t1", "Tag"),
                     Field(2, "time", "Timestamp")>>, <<4, 0>>),
     AddFieldsOp(<<Field(0, "t1", "Tag")>>),
     AddFieldsOp(<<Field(4, "t2", "Tag")>>),
     AddFieldsOp(<<Field(1, "f1", "String")>>),
     AddFieldsOp(<<Field(3, "f2", "Float")>>),
     AddFieldsOp(<<Field(2, "time", "Timestamp")>>),
     AddFieldsOp(<<Field(1, "f1", "Integer")>>),
     AddFieldsOp(<<Field(3, "f2", "Float"), Field(1, "f1", "Integer")>>),
     AddFieldsOp(<<Field(0, "t1", "Tag"), Field(1, "f1", "String")>>)}

\* A call of InnerCatalog::apply_catalog_batch with the batch b and the
\* next sequence number, made while the sequence is below max.
ApplyBatch(b, max) ==
    /\ pc[1] = "idle"
    /\ inner.sequence < max
    /\ DirectOutcome(b, apply_catalog_batch(inner, b, SeqNext(inner.sequence)))

NextTable ==
    \E op \in TableOps : ApplyBatch(DatabaseBatch(Epoch, 1, "a", <<op>>), MaxTableSeq)

SpecTable == Init /\ [][NextTable]_vars

\* No generation batch is applied once the sequence has reached MaxGenSeq.
MaxGenSeq == 3

NextGeneration == \E b \in GenerationBatches : ApplyBatch(b, MaxGenSeq)

SpecGeneration == Init /\ [][NextGeneration]_vars

\* No batch of the many-tags specification is applied once the sequence
\* has reached MaxTagSeq.
MaxTagSeq == 5

\* The number of tag columns that the message of TooManyTagColumns and the
\* tests name as the limit; NUM_TAG_COLUMNS_LIMIT itself is usize::MAX.
MessageTagLimit == 250

\* The first n tags, the i-th with the column id i, and the time column.
TagsAndTime(n) ==
    [i \in 1..n |-> Field(i - 1, TagName(i - 1), "Tag")]
        \o <<Field(NumTagNames, "time", "Timestamp")>>

\* The ops that create database 1 and its table 0 with MessageTagLimit tags
\* or with one more, and that add the next two tags and two fields to it.
ManyTagsOps ==
    {[op |-> "CreateDatabase", database_id |-> 1, database_name |-> "a",
      retention_period |-> NoneOpt],
     CreateTableOp(TagsAndTime(MessageTagLimit), [i \in 1..MessageTagLimit |-> i - 1]),
     CreateTableOp(TagsAndTime(MessageTagLimit + 1),
                   [i \in 1..(MessageTagLimit + 1) |-> i - 1]),
     AddFieldsOp(<<Field(MessageTagLimit, TagName(MessageTagLimit), "Tag")>>),
     AddFieldsOp(<<Field(MessageTagLimit + 1, TagName(MessageTagLimit + 1), "Tag")>>),
     AddFieldsOp(<<Field(NumTagNames + 1, "f1", "String")>>),
     AddFieldsOp(<<Field(NumTagNames + 2, "f2", "Float")>>)}

NextManyTags ==
    \E op \in ManyTagsOps : ApplyBatch(DatabaseBatch(Epoch, 1, "a", <<op>>), MaxTagSeq)

SpecManyTags == Init /\ [][NextManyTags]_vars

\* No batch of the node specification is applied once the sequence has
\* reached MaxNodeSeq.
MaxNodeSeq == 4

NodeNames == {"n1", "n2"}

\* A node is registered, for the first time or again.
RegisterNode(name) ==
    \E i \in {"i1", "i2"}, cores \in {1, 2} :
        ApplyBatch(NodeBatchOf(inner, name,
                       [op |-> "RegisterNode", node_id |-> name, instance_id |-> i,
                        registered_time_ns |-> Epoch, core_count |-> cores,
                        mode |-> "Core"]), MaxNodeSeq)

\* A registered node is stopped.
StopNode(name) ==
    /\ IsSome(RepoNameToId(inner.nodes, name))
    /\ ApplyBatch(NodeBatchOf(inner, name,
                      [op |-> "StopNode", node_id |-> name, stopped_time_ns |-> Now2023]),
                  MaxNodeSeq)

\* A batch of another kind, with one op, is applied.
ApplyOtherBatch ==
    \E b \in DatabaseBatches \cup TokenBatches \cup DeleteBatches \cup GenerationBatches :
        /\ Len(b.ops) = 1
        /\ ApplyBatch(b, MaxNodeSeq)

NextNode ==
    \/ \E name \in NodeNames : RegisterNode(name)
    \/ \E name \in NodeNames : StopNode(name)
    \/ ApplyOtherBatch

SpecNode == Init /\ [][NextNode]_vars

(***************************************************************************)
(* Catalog::new_with_shutdown for the node n1: writer 2 is the spawned     *)
(* task.  It waits for the shutdown token (idle, without a request), and   *)
(* once the token has fired it calls update_node_state_stopped and ends,   *)
(* whatever the call returns.  Writer 1 registers the node.                *)
(***************************************************************************)
StopRequest == [api |-> "update_node_state_stopped", node_id |-> "n1"]

\* The task waits in shutdown_token.wait_for_shutdown().
TaskWaits == pc[2] = "idle" /\ req[2] = NoReq

\* The shutdown token fires and wait_for_shutdown() returns.
ShutdownFires ==
    /\ TaskWaits
    /\ pc' = [pc EXCEPT ![2] = "shutdown"]
    /\ UNCHANGED <<inner, permit_locked, permit_value, req, observed, first_observed,
                   batch, stamped, result, log, checkpoint, history, restarts>>
    /\ UNCHANGED writeVars

\* The task calls update_node_state_stopped.
StopTaskCall ==
    /\ pc[2] = "shutdown"
    /\ ComposeStep(2, StopRequest, Compose(inner, StopRequest, Now2023), inner.sequence,
                   MaxNodeSeq + 1)

NextShutdown ==
    \/ \E i \in {"i1", "i2"} :
          Call(1, {[node_id |-> "n1", instance_id |-> i, api |-> "register_node"]},
               {Now2023}, MaxNodeSeq)
    \/ ShutdownFires
    \/ StopTaskCall
    \/ \E w \in Writers : Recompose(w, {Now2023}, MaxNodeSeq + 1)
    \/ \E w \in Writers : Verify(w)
    \/ \E w \in Writers : Persist(w)
    \/ \E w \in Writers : PersistFail(w)
    \/ \E w \in Writers : Apply(w)

\* The tokio runtime runs every task that can go on, the mutex of the write
\* permit is handed to each waiter, and every write to the object store
\* ends, with success or with an error.
SpecShutdown ==
    /\ Init /\ [][NextShutdown]_vars
    /\ WF_vars(StopTaskCall)
    /\ \A w \in Writers :
          /\ WF_vars(Recompose(w, {Now2023}, MaxNodeSeq + 1))
          /\ SF_vars(Verify(w))
          /\ WF_vars(Persist(w) \/ PersistFail(w))
          /\ WF_vars(Apply(w))

\* No token call composes a batch once the sequence has reached MaxTokenSeq.
MaxTokenSeq == 5

\* The token calls: the operator token and the named admin token t1 are
\* created, the operator token is regenerated, and either is deleted.
TokenRequests ==
    {[api |-> "create_admin_token", name |-> DEFAULT_OPERATOR_TOKEN_NAME, hash |-> "h1"],
     [api |-> "create_admin_token", name |-> "t1", hash |-> "h2"],
     [api |-> "regenerate_admin_token", hash |-> "h3"],
     [api |-> "delete_token", token_name |-> "_admin"],
     [api |-> "delete_token", token_name |-> "t1"]}

\* The calls of the second writer: it creates and regenerates the operator
\* token with hashes of its own.
OperatorTokenRequests ==
    {[api |-> "create_admin_token", name |-> DEFAULT_OPERATOR_TOKEN_NAME, hash |-> "h4"],
     [api |-> "regenerate_admin_token", hash |-> "h5"]}

NextToken ==
    \/ Call(1, TokenRequests, {Now2023}, MaxTokenSeq)
    \/ Call(2, OperatorTokenRequests, {Now2023}, MaxTokenSeq)
    \/ \E w \in Writers :
           \/ Recompose(w, {Now2023}, MaxTokenSeq)
           \/ Verify(w)
           \/ Persist(w)
           \/ PersistFail(w)
           \/ Apply(w)

SpecToken == Init /\ [][NextToken]_vars

NextApply ==
    \/ \E b \in NodeBatches : ApplyDirect(b)
    \/ \E b \in DatabaseBatches : ApplyDirect(b)
    \/ \E b \in TokenBatches : ApplyDirect(b)
    \/ \E b \in DeleteBatches : ApplyDirect(b)
    \/ \E b \in GenerationBatches : ApplyDirect(b)

SpecApply == Init /\ [][NextApply]_vars

(***************************************************************************)
(* Sequencing of applied batches.                                          *)
(***************************************************************************)
\* C1: every applied batch advances the catalog sequence number by exactly
\* one: the k-th batch of the history of applied batches carries sequence k
\* (the catalog starts at sequence 0), the catalog's sequence number is the
\* length of the history, and a catalog loaded from a checkpoint has the
\* checkpoint's sequence plus the number of log entries applied on top of it.
SequenceAdvancesByOne ==
    /\ \A k \in DOMAIN history : history[k].sequence = k
    /\ inner.sequence = Len(history)
    /\ LoadCatalog(checkpoint, log).sequence
           = checkpoint.sequence + Len(ReplayedEntries(checkpoint.sequence, log))

\* A catalog restarted from the checkpoint at sequence 2 with one batch
\* applied on top of it.
SequenceAdvancesByOneWitness ==
    /\ restarts = 1
    /\ checkpoint.sequence = 2
    /\ Len(history) = 3
    /\ inner.sequence = 3

\* The step in which writer w leaves get_permit_and_verify_catalog_batch.
VerifyStepOf(w) == pc[w] = "verify" /\ pc'[w] \in {"retry", "persist"}

\* C2: get_permit_and_verify_catalog_batch returns Retry (without keeping
\* the permit) whenever the observed sequence differs from the catalog's,
\* otherwise Success with the batch stamped current + 1 and the permit held
\* with that value; the catalog and its sequence number are not changed.
VerifyContract ==
    [][\A w \in Writers :
          VerifyStepOf(w) =>
              /\ inner' = inner
              /\ history' = history
              /\ IF observed[w] # inner.sequence
                 THEN /\ pc'[w] = "retry"
                      /\ permit_locked' = FALSE
                      /\ stamped'[w] = stamped[w]
                 ELSE /\ pc'[w] = "persist"
                      /\ stamped'[w] = inner.sequence + 1
                      /\ permit_locked' = TRUE
                      /\ permit_value' = inner.sequence + 1
                      /\ batch'[w] = batch[w]]_vars

\* Both outcomes have happened: one writer was sent to retry with a stale
\* batch while the other holds the permit for a later batch.
VerifyContractWitness ==
    \E w, v \in Writers :
        /\ pc[w] = "retry"
        /\ observed[w] < inner.sequence
        /\ pc[v] = "persist"
        /\ stamped[v] = inner.sequence + 1
        /\ permit_locked

\* C3: of two writers that composed against the same sequence N the one
\* verified first is stamped N + 1 and applied; a writer that submits a batch
\* composed against N after another batch was applied receives Retry,
\* recomposes against the current sequence, and its batch is then applied
\* with the next sequence number; the applied batches carry distinct,
\* consecutive sequence numbers and every batch is applied to the state it
\* was composed against and recorded.
RacingWritersSerialize ==
    [][/\ \A w \in Writers :
            /\ (VerifyStepOf(w) /\ Len(history) > observed[w]) => pc'[w] = "retry"
            /\ (VerifyStepOf(w) /\ Len(history) = observed[w])
                   => (pc'[w] = "persist" /\ stamped'[w] = observed[w] + 1)
            /\ (pc[w] = "retry" /\ pc'[w] = "verify") => observed'[w] = inner.sequence
            /\ (pc[w] = "apply" /\ pc'[w] # "apply" /\ restarts' = restarts)
                   => /\ result'[w] = "Ok"
                      /\ observed[w] = inner.sequence
                      /\ stamped[w] = observed[w] + 1
                      /\ inner'.sequence = stamped[w]
                      /\ history' = Append(history, [sequence |-> stamped[w],
                                                     batch |-> batch[w]])
       /\ \A j, k \in DOMAIN history' :
              history'[j].sequence = history'[k].sequence => j = k
       /\ \A k \in DOMAIN history : k \in DOMAIN history' /\ history'[k] = history[k]
      ]_vars

\* Two calls that began at the same sequence N have both succeeded, one
\* with sequence N + 1 and the other, after a retry, with N + 2.
RacingWritersSerializeWitness ==
    \E w, v \in Writers :
        /\ w # v
        /\ pc[w] = "idle" /\ result[w] = "Ok"
        /\ pc[v] = "idle" /\ result[v] = "Ok"
        /\ first_observed[w] = first_observed[v]
        /\ stamped[v] = first_observed[v] + 1
        /\ stamped[w] = first_observed[w] + 2
        /\ inner.sequence = first_observed[w] + 2

\* The writers between a successful verification and the end of their apply.
PermitHolders == {w \in Writers : pc[w] \in {"persist", "apply"}}

\* C4: at most one writer holds the write permit, and while a writer is
\* between its successful verification and its apply no other batch is
\* applied: the catalog's sequence number is still the one verified, one
\* below the batch's.
WritesMutuallyExclusive ==
    /\ Cardinality(PermitHolders) <= 1
    /\ \A w \in PermitHolders :
           /\ permit_locked
           /\ permit_value = stamped[w]
           /\ inner.sequence = observed[w]
           /\ Len(history) = observed[w]
           /\ stamped[w] = inner.sequence + 1

\* A writer is about to apply while the other waits for the permit with a
\* batch composed against the same sequence.
WritesMutuallyExclusiveWitness ==
    \E w, v \in Writers :
        /\ w # v
        /\ pc[w] = "apply"
        /\ pc[v] = "verify"
        /\ observed[v] = observed[w]

ApplySucceeded == {"Ok", "Unchanged"}

\* C6: a batch of any kind is applied atomically: when apply_catalog_batch
\* returns an error for a batch, the catalog and its sequence number are
\* exactly what they were before the batch.
BatchAppliedAtomically ==
    [][\A k \in {"Node", "Database", "Token", "Delete", "Generation"} :
          (batch'[1].kind = k /\ result'[1] \notin ApplySucceeded) => inner' = inner]_vars

(***************************************************************************)
(* Replay of the log and restart from a checkpoint.                        *)
(***************************************************************************)
\* The batches applied so far as a log: sequence -> batch.
HistoryLog == [k \in DOMAIN history |-> history[k].batch]

\* The catalog obtained by replaying every applied batch in ascending
\* sequence order on an empty catalog.
Replayed == LoadCatalog(InnerCatalogNew, HistoryLog)

\* No writer has panicked.
NoPanic == \A w \in Writers : pc[w] # "panicked"

\* The catalogs a and b are equal except that the next-id cursors of the
\* database and token repositories of a may be smaller than those of b.
SameUpToNextId(a, b) ==
    /\ [a EXCEPT !.databases.next_id = b.databases.next_id,
                 !.tokens.repo.next_id = b.tokens.repo.next_id] = b
    /\ a.databases.next_id <= b.databases.next_id
    /\ a.tokens.repo.next_id <= b.tokens.repo.next_id

\* Every call has returned: no writer is in the middle of an update.
AllCallsReturned == \A w \in Writers : pc[w] = "idle"

\* C7: once every call has returned, replaying the applied batches in
\* ascending sequence order yields exactly the in-memory catalog (state and
\* sequence number) reached by applying them online.
ReplayEqualsOnline == AllCallsReturned => Replayed = inner

\* What the replay does reproduce: the sequence number and everything of
\* the catalog but the next-id cursors, which are smaller in the replayed
\* catalog when an id was handed out for a batch that was never applied.
ReplayEqualsOnlineUpToNextId ==
    NoPanic =>
        /\ Replayed.sequence = inner.sequence
        /\ Replayed.sequence = Len(history)
        /\ SameUpToNextId(Replayed, inner)

\* The log after every entry that the checkpoint covers was deleted.
LogAfterGc == [s \in {t \in DOMAIN log : t > checkpoint.sequence} |-> log[s]]

\* No batch that was written to the log awaits its apply.
NoBatchInFlight == \A w \in Writers : pc[w] \notin {"apply", "panicked"}

\* C8: deleting the log entries up to the checkpoint's sequence does not
\* change the catalog obtained on restart, and, once every call has
\* returned, that catalog equals the one before the restart.
GcKeepsRestartedCatalog ==
    /\ LoadCatalog(checkpoint, LogAfterGc) = LoadCatalog(checkpoint, log)
    /\ AllCallsReturned => LoadCatalog(checkpoint, LogAfterGc) = inner

\* What the restart does reproduce: the catalog built from the checkpoint
\* and the entries above its sequence is the same with and without the
\* deleted entries, and when no persisted batch awaits its apply it has the
\* sequence number and everything of the catalog before the restart but
\* the next-id cursors.
GcKeepsRestartedCatalogUpToNextId ==
    /\ LoadCatalog(checkpoint, LogAfterGc) = LoadCatalog(checkpoint, log)
    /\ LoadCatalog(checkpoint, LogAfterGc).sequence
           = checkpoint.sequence + Cardinality(DOMAIN LogAfterGc)
    /\ NoBatchInFlight => SameUpToNextId(LoadCatalog(checkpoint, LogAfterGc), inner)

(***************************************************************************)
(* Soft deletion.                                                          *)
(***************************************************************************)
\* The databases of the catalog st that carry the name.
DbsNamed(st, name) ==
    {st.databases.repo[id] :
        id \in {i \in DOMAIN st.databases.repo : st.databases.repo[i].name = name}}

\* The tables that carry the name in a database named db_name.
TablesNamed(st, db_name, name) ==
    UNION {{db.tables.repo[id] :
               id \in {i \in DOMAIN db.tables.repo : db.tables.repo[i].table_name = name}} :
           db \in DbsNamed(st, db_name)}

\* The databases or tables that the soft delete request r names.
NamedBy(st, r) ==
    IF r.api = "soft_delete_database"
    THEN DbsNamed(st, r.name)
    ELSE TablesNamed(st, r.db, r.name)

\* r is a soft delete with the Default selector of a database or table that
\* is soft-deleted and has a hard delete time.
DefaultOnSoftDeleted(st, r) ==
    /\ r.api \in {"soft_delete_database", "soft_delete_table"}
    /\ r.hard.sel = "Default"
    /\ NamedBy(st, r) # {}
    /\ \A e \in NamedBy(st, r) : e.deleted /\ IsSome(e.hard_delete_time)

\* C9: a soft delete with the Default selector of a database or table that
\* is already soft-deleted with a hard delete time set returns
\* AlreadyDeleted and changes nothing of the catalog (names, deleted flags,
\* hard delete times, sequence number) nor of the log; as the catalog is
\* unchanged, so does every repetition of the call.
RepeatedDefaultSoftDeleteRejected ==
    [][(pc[1] = "idle" /\ DefaultOnSoftDeleted(inner, req'[1]))
          => /\ result'[1] = "AlreadyDeleted"
             /\ pc'[1] = "idle"
             /\ inner' = inner
             /\ log' = log
             /\ history' = history]_vars

\* A soft delete of a deleted table with the Default selector has returned
\* AlreadyDeleted; the table has its hard delete time and the name it got
\* when it was deleted.
RepeatedDefaultSoftDeleteRejectedWitness ==
    /\ pc[1] = "idle"
    /\ result[1] = "AlreadyDeleted"
    /\ req[1].api = "soft_delete_table"
    /\ req[1].name = "x-20231114T221320"
    /\ DefaultOnSoftDeleted(inner, req[1])

\* The timestamp chrono prints with "%Y%m%dT%H%M%S" for the two times of
\* the time provider, in UTC.
UtcStamp(t) ==
    CASE t = Epoch   -> "19700101T000000"
      [] t = Now2023 -> "20231114T221320"

\* The name after a soft delete at time t of an entity with the name and
\* the deleted flag before the delete.
NameAfterSoftDelete(name, deleted, t) ==
    IF deleted THEN name ELSE name \o "-" \o UtcStamp(t)

\* The database before and after the soft delete op.
DatabaseSoftDeleted(op, before, after) ==
    /\ op.database_id \in DOMAIN before.databases.repo
    /\ op.database_id \in DOMAIN after.databases.repo
    /\ LET old == before.databases.repo[op.database_id]
           new == after.databases.repo[op.database_id]
       IN  /\ new.id = old.id
           /\ new.deleted
           /\ new.name = NameAfterSoftDelete(old.name, old.deleted, op.deletion_time)

\* The table before and after the soft delete op.
TableSoftDeleted(op, before, after) ==
    /\ op.database_id \in DOMAIN before.databases.repo
    /\ op.database_id \in DOMAIN after.databases.repo
    /\ LET old_tables == before.databases.repo[op.database_id].tables.repo
           new_tables == after.databases.repo[op.database_id].tables.repo
       IN  /\ op.table_id \in DOMAIN old_tables
           /\ op.table_id \in DOMAIN new_tables
           /\ new_tables[op.table_id].table_id = old_tables[op.table_id].table_id
           /\ new_tables[op.table_id].deleted
           /\ new_tables[op.table_id].table_name
                  = NameAfterSoftDelete(old_tables[op.table_id].table_name,
                                        old_tables[op.table_id].deleted,
                                        op.deletion_time)

\* C10: applying a soft delete keeps the id of the database or table and
\* sets its deleted flag; a live entity is renamed to its name, "-" and the
\* UTC deletion time as YYYYMMDDThhmmss, and an entity that is already
\* soft-deleted keeps the name it has.
SoftDeleteRenamesOnce ==
    [][pc[1] = "apply"
          => \A k \in 1..Len(batch[1].ops) :
                /\ batch[1].ops[k].op = "SoftDeleteDatabase"
                       => DatabaseSoftDeleted(batch[1].ops[k], inner, inner')
                /\ batch[1].ops[k].op = "SoftDeleteTable"
                       => TableSoftDeleted(batch[1].ops[k], inner, inner')]_vars

\* A database was soft-deleted twice: it is deleted and has the name of its
\* first deletion.
SoftDeleteRenamesOnceWitness ==
    /\ pc[1] = "idle"
    /\ Cardinality({k \in DOMAIN history :
                       history[k].batch.ops[1].op = "SoftDeleteDatabase"}) = 2
    /\ \E id \in DOMAIN inner.databases.repo :
          /\ inner.databases.repo[id].deleted
          /\ inner.databases.repo[id].name \in {"a-19700101T000000", "a-20231114T221320"}

(***************************************************************************)
(* Hard deletion of the internal database.                                 *)
(***************************************************************************)
\* The ids of the databases of st that carry the reserved name.
InternalDbIds(st) ==
    {id \in DOMAIN st.databases.repo : st.databases.repo[id].name = "_internal"}

\* C11: a hard delete of the internal database `_internal` returns
\* CannotDeleteInternalDatabase and leaves the catalog and the log as they
\* were; the internal database is in the catalog in every state.
InternalDatabaseNotHardDeleted ==
    [][/\ InternalDbIds(inner) # {}
       /\ InternalDbIds(inner') = InternalDbIds(inner)
       /\ (pc[1] = "idle" /\ req'[1].api = "hard_delete_database"
              /\ req'[1].db_id \in InternalDbIds(inner))
             => /\ result'[1] = "CannotDeleteInternalDatabase"
                /\ pc'[1] = "idle"
                /\ inner' = inner
                /\ log' = log
                /\ history' = history]_vars

\* After another database was hard-deleted, the hard delete of the internal
\* database was refused.
InternalDatabaseNotHardDeletedWitness ==
    /\ pc[1] = "idle"
    /\ req[1].api = "hard_delete_database"
    /\ req[1].db_id \in InternalDbIds(inner)
    /\ result[1] = "CannotDeleteInternalDatabase"
    /\ \E k \in DOMAIN history :
          /\ history[k].batch.kind = "Delete"
          /\ history[k].batch.ops[1].op = "DeleteDatabase"

(***************************************************************************)
(* Tables: series key, sort key and column additions.                      *)
(***************************************************************************)
\* Every table definition of the catalog st.
AllTables(st) ==
    UNION {{st.databases.repo[d].tables.repo[t] :
               t \in DOMAIN st.databases.repo[d].tables.repo} :
           d \in DOMAIN st.databases.repo}

\* The names of the columns of a table.
ColumnNames(table) == {table.columns.repo[c].name : c \in DOMAIN table.columns.repo}

\* p is a prefix of q.
IsPrefix(p, q) == Len(p) <= Len(q) /\ \A i \in 1..Len(p) : p[i] = q[i]

\* C12: for every table the series key (the names of its series key
\* columns, in order) is a prefix of the sort key, and when the table has a
\* time column the sort key is the series key followed by the time column.
SeriesKeyPrefixOfSortKey ==
    \A table \in AllTables(inner) :
        /\ Len(table.series_key_names) = Len(table.series_key)
        /\ \A i \in 1..Len(table.series_key) :
               /\ table.series_key[i] \in DOMAIN table.columns.repo
               /\ table.columns.repo[table.series_key[i]].name = table.series_key_names[i]
        /\ IsPrefix(table.series_key_names, table.sort_key)
        /\ "time" \in ColumnNames(table)
               => table.sort_key = table.series_key_names \o <<"time">>

\* A table that was created empty got its time column first and then the
\* tags t2 and t1, in this order.
SeriesKeyPrefixOfSortKeyWitness ==
    /\ inner.sequence = 6
    /\ Len(history) = 6
    /\ history[3].batch.ops = <<CreateTableOp(<< >>, << >>)>>
    /\ history[4].batch.ops = <<AddFieldsOp(<<Field(2, "time", "Timestamp")>>)>>
    /\ \E table \in AllTables(inner) :
          /\ table.series_key_names = <<"t2", "t1">>
          /\ table.sort_key = <<"t2", "t1", "time">>

\* The table that the op names, when the catalog st has it.
TableOfOp(st, op) ==
    IF op.database_id \in DOMAIN st.databases.repo
       /\ op.table_id \in DOMAIN st.databases.repo[op.database_id].tables.repo
    THEN Some(st.databases.repo[op.database_id].tables.repo[op.table_id])
    ELSE NoneOpt

\* The column f is in the table with its id and name, with the same type.
HasColumnOfSameType(table, f) ==
    /\ f.id \in DOMAIN table.columns.repo
    /\ table.columns.repo[f.id].name = f.name
    /\ table.columns.repo[f.id].data_type = f.data_type

\* The column f is in the table with its id and name, with another type.
HasColumnOfOtherType(table, f) ==
    /\ f.id \in DOMAIN table.columns.repo
    /\ table.columns.repo[f.id].name = f.name
    /\ table.columns.repo[f.id].data_type # f.data_type

\* C13: an AddFields op whose columns all exist in the table with the same
\* type changes nothing (the catalog and its sequence stay as they are); an
\* AddFields op with a column that exists with a different type fails with
\* FieldTypeMismatch and changes nothing, not even by the new columns it
\* names besides.
ExistingColumnNoOpOrMismatch ==
    [][(pc[1] = "idle" /\ batch'[1].kind = "Database"
          /\ batch'[1].ops[1].op = "AddFields"
          /\ IsSome(TableOfOp(inner, batch'[1].ops[1])))
         => LET fields == batch'[1].ops[1].field_definitions
                table  == TableOfOp(inner, batch'[1].ops[1])[1]
            IN  /\ (\A i \in 1..Len(fields) : HasColumnOfSameType(table, fields[i]))
                       => (result'[1] = "Unchanged" /\ inner' = inner)
                /\ (\E i \in 1..Len(fields) : HasColumnOfOtherType(table, fields[i]))
                       => (result'[1] = "FieldTypeMismatch" /\ inner' = inner)]_vars

\* The op adding the new column f2 together with f1 as an Integer has
\* failed on a table that has f1 as a String and no f2.
ExistingColumnNoOpOrMismatchWitness ==
    /\ batch[1].kind = "Database"
    /\ batch[1].ops = <<AddFieldsOp(<<Field(3, "f2", "Float"), Field(1, "f1", "Integer")>>)>>
    /\ result[1] = "FieldTypeMismatch"
    /\ \E table \in AllTables(inner) :
          /\ HasColumnOfOtherType(table, Field(1, "f1", "Integer"))
          /\ "f2" \notin ColumnNames(table)

(***************************************************************************)
(* Generation durations.                                                   *)
(***************************************************************************)
\* The step is a step of the call of writer w: nothing of the other
\* writers, of the object store or of the process changes in it.
OwnStep(w) ==
    /\ pc[w] \in {"idle", "retry"}
    /\ \A v \in Writers \ {w} :
          /\ pc'[v] = pc[v] /\ req'[v] = req[v] /\ result'[v] = result[v]
          /\ batch'[v] = batch[v] /\ observed'[v] = observed[v]
    /\ log' = log /\ restarts' = restarts /\ checkpoint' = checkpoint

\* C14: a level that has a duration keeps it in every step, a restart
\* included, and a call of set_gen1_duration with another duration than
\* the stored one, before or after a restart, returns
\* CannotChangeGenerationDuration.
GenerationDurationNeverChanges ==
    [][/\ \A l \in DOMAIN inner.generation_config :
             /\ l \in DOMAIN inner'.generation_config
             /\ inner'.generation_config[l] = inner.generation_config[l]
       /\ \A w \in Writers :
             (/\ OwnStep(w)
              /\ req'[w].api = "set_gen1_duration"
              /\ 1 \in DOMAIN inner.generation_config
              /\ inner.generation_config[1] # req'[w].duration)
                => (result'[w] = "CannotChangeGenerationDuration" /\ pc'[w] = "idle")]_vars

\* After a restart of a catalog whose level 1 has the duration 10, a call
\* of set_gen1_duration with 20 has returned the error and 10 is stored.
GenerationDurationNeverChangesWitness ==
    /\ restarts = 1
    /\ \E k \in DOMAIN history :
          /\ history[k].batch.kind = "Generation"
          /\ history[k].batch.ops[1].duration = 10
    /\ \E w \in Writers :
          /\ pc[w] = "idle"
          /\ req[w] = [api |-> "set_gen1_duration", duration |-> 20]
          /\ result[w] = "CannotChangeGenerationDuration"
    /\ inner.generation_config = (1 :> 10)

\* C15: a generation batch whose ops all set a level to the duration it
\* already has is a no-op: apply_catalog_batch returns Ok(None) and the
\* catalog, its generation config and its sequence number included, is as
\* before.
SetEqualDurationIsNoOp ==
    [][(/\ batch'[1].kind = "Generation"
        /\ \A i \in DOMAIN batch'[1].ops :
              /\ batch'[1].ops[i].level \in DOMAIN inner.generation_config
              /\ inner.generation_config[batch'[1].ops[i].level] = batch'[1].ops[i].duration)
         => (result'[1] = "Unchanged" /\ inner' = inner)]_vars

\* Level 1 was set to 10 by the batch with sequence 2 and setting it to 10
\* once more has changed nothing.
SetEqualDurationIsNoOpWitness ==
    /\ batch[1].kind = "Generation"
    /\ batch[1].ops = <<[op |-> "SetGenerationDuration", level |-> 1, duration |-> 10]>>
    /\ result[1] = "Unchanged"
    /\ inner.generation_config = (1 :> 10)
    /\ inner.sequence = 2
    /\ Len(history) = 2 /\ history[2].batch = batch[1]

(***************************************************************************)
(* The number of tag columns of a table.                                   *)
(***************************************************************************)
\* The tag columns of a table.
TagColumns(table) ==
    {c \in DOMAIN table.columns.repo : table.columns.repo[c].data_type = "Tag"}

\* The tags among the fields that the table does not have yet.
NewTags(table, fields) ==
    {i \in DOMAIN fields : fields[i].data_type = "Tag"
                             /\ fields[i].id \notin DOMAIN table.columns.repo}

\* The tags among the fields.
TagsOf(fields) == {i \in DOMAIN fields : fields[i].data_type = "Tag"}

\* C16: no table has more than 250 tag columns: an AddFields op with a new
\* tag for a table that has 250 tags fails with TooManyTagColumns and so
\* does a CreateTable op with more than 250 tags, and either leaves the
\* catalog as it was.
AtMost250TagColumns ==
    [][LET op == batch'[1].ops[1]
       IN  /\ \A table \in AllTables(inner') :
                 Cardinality(TagColumns(table)) <= MessageTagLimit
           /\ (/\ batch'[1].kind = "Database" /\ op.op = "AddFields"
               /\ IsSome(TableOfOp(inner, op))
               /\ Cardinality(TagColumns(TableOfOp(inner, op)[1])) = MessageTagLimit
               /\ NewTags(TableOfOp(inner, op)[1], op.field_definitions) # {})
                 => (result'[1] = "TooManyTagColumns" /\ inner' = inner)
           /\ (/\ batch'[1].kind = "Database" /\ op.op = "CreateTable"
               /\ 1 \in DOMAIN inner.databases.repo
               /\ ~IsSome(TableOfOp(inner, op))
               /\ Cardinality(TagsOf(op.field_definitions)) > MessageTagLimit)
                 => (result'[1] = "TooManyTagColumns" /\ inner' = inner)]_vars

(***************************************************************************)
(* Nodes.                                                                  *)
(***************************************************************************)
\* The names of the registered nodes, each with its definition.
NodeNamed(st, name) ==
    {st.nodes.repo[id] : id \in {i \in DOMAIN st.nodes.repo : st.nodes.repo[i].node_id = name}}

\* C17: the instance id of a registered node is the same after every step,
\* and a RegisterNode op for a registered node name with another instance
\* id fails with InvalidNodeRegistration and changes nothing.
InstanceIdNeverChanges ==
    [][/\ \A name \in NodeNames : \A n \in NodeNamed(inner, name) :
             \E m \in NodeNamed(inner', name) : m.instance_id = n.instance_id
       /\ (/\ batch'[1].kind = "Node"
           /\ batch'[1].ops[1].op = "RegisterNode"
           /\ \E n \in NodeNamed(inner, batch'[1].ops[1].node_id) :
                 n.instance_id # batch'[1].ops[1].instance_id)
             => (result'[1] = "InvalidNodeRegistration" /\ inner' = inner)]_vars

\* The node n1 was registered with the instance id i1 and the registration
\* of n1 with i2 has failed.
InstanceIdNeverChangesWitness ==
    /\ batch[1].kind = "Node"
    /\ batch[1].ops[1].op = "RegisterNode"
    /\ batch[1].ops[1].node_id = "n1" /\ batch[1].ops[1].instance_id = "i2"
    /\ result[1] = "InvalidNodeRegistration"
    /\ \E n \in NodeNamed(inner, "n1") : n.instance_id = "i1"

\* The step applied a batch that stops the node of this name.
StoppedByOp(name) ==
    /\ batch'[1].kind = "Node"
    /\ batch'[1].node_id = name
    /\ batch'[1].ops[1].op = "StopNode"
    /\ result'[1] = "Ok"

\* C18: a node that is Running is Running after every step but the one
\* that applies a StopNode op for it: no other op stops or removes it.
RunningUntilStopNode ==
    [][\A name \in NodeNames : \A n \in NodeNamed(inner, name) :
          n.state.s = "Running"
             => \/ \E m \in NodeNamed(inner', name) : m.state.s = "Running"
                \/ StoppedByOp(name)]_vars

\* With n1 and n2 Running, a StopNode op for n2 has stopped n2 and left n1
\* Running.
RunningUntilStopNodeWitness ==
    /\ batch[1].kind = "Node" /\ batch[1].node_id = "n2"
    /\ batch[1].ops[1].op = "StopNode" /\ result[1] = "Ok"
    /\ \E n \in NodeNamed(inner, "n1") : n.state.s = "Running"
    /\ \E n \in NodeNamed(inner, "n2") : n.state.s = "Stopped"

(***************************************************************************)
(* Shutdown.                                                               *)
(***************************************************************************)
\* The shutdown token has fired.
TokenFired == ~TaskWaits

\* The node n1 is Stopped in the catalog.
NodeStopped == \E n \in NodeNamed(inner, "n1") : n.state.s = "Stopped"

\* The call of update_node_state_stopped has returned.
StopTaskReturned == pc[2] = "idle" /\ req[2] = StopRequest

\* The node n1 is registered and Running.
NodeRunning == \E n \in NodeNamed(inner, "n1") : n.state.s = "Running"

TokensNamed(st, name) ==
    {id \in DOMAIN st.tokens.repo.repo : st.tokens.repo.repo[id].name = name}

\* C20: a call of delete_token naming _admin returns
\* CannotDeleteOperatorToken without composing a batch, and a token _admin
\* of the repository is in the repository, findable by its name, after
\* every step.
OperatorTokenNeverDeleted ==
    [][/\ TokensNamed(inner, "_admin") # {}
             => /\ TokensNamed(inner', "_admin") = TokensNamed(inner, "_admin")
                /\ RepoContainsName(inner'.tokens.repo, "_admin")
       /\ \A w \in Writers :
             (/\ OwnStep(w) /\ pc[w] = "idle"
              /\ req'[w].api = "delete_token" /\ req'[w].token_name = "_admin")
                => /\ result'[w] = "CannotDeleteOperatorToken" /\ pc'[w] = "idle"
                   /\ inner' = inner /\ log' = log]_vars

\* The operator token was created and regenerated, the token t1 was
\* created and deleted, and the call to delete _admin has failed.
OperatorTokenNeverDeletedWitness ==
    /\ pc[1] = "idle"
    /\ req[1] = [api |-> "delete_token", token_name |-> "_admin"]
    /\ result[1] = "CannotDeleteOperatorToken"
    /\ TokensNamed(inner, "_admin") # {}
    /\ \E k \in DOMAIN history : history[k].batch.ops[1].op = "RegenerateAdminToken"
    /\ \E k \in DOMAIN history :
          /\ history[k].batch.ops[1].op = "DeleteToken"
          /\ history[k].batch.ops[1].token_name = "t1"

\* C21: a call of create_admin_token made while a token _admin is in the
\* repository returns TokenNameAlreadyExists and leaves the token
\* repository as it is, and the repository never holds two tokens named
\* _admin, also when two writers create the operator token concurrently.
AtMostOneOperatorToken ==
    [][/\ \A w \in Writers :
             (/\ OwnStep(w)
              /\ req'[w].api = "create_admin_token" /\ req'[w].name = "_admin"
              /\ RepoContainsName(inner.tokens.repo, "_admin"))
                => /\ result'[w] = "TokenNameAlreadyExists" /\ pc'[w] = "idle"
                   /\ inner'.tokens = inner.tokens
       /\ Cardinality(TokensNamed(inner', "_admin")) <= 1]_vars

\* Both writers were handed a token id for the operator token, the first
\* writer's token was created, and the second writer's call has returned
\* TokenNameAlreadyExists.
AtMostOneOperatorTokenWitness ==
    /\ Len(history) = 2
    /\ req[1] = [api |-> "create_admin_token", name |-> "_admin", hash |-> "h1"]
    /\ result[1] = "Ok"
    /\ req[2] = [api |-> "create_admin_token", name |-> "_admin", hash |-> "h4"]
    /\ result[2] = "TokenNameAlreadyExists"
    /\ inner.tokens.repo.next_id = 2
    /\ TokensNamed(inner, "_admin") = {0}

\* The step applies the RegenerateAdminToken batch of writer w.
RegenerateApplied(w) ==
    /\ pc[w] = "apply" /\ pc'[w] = "idle"
    /\ batch[w].ops[1].op = "RegenerateAdminToken"

\* The repository of tokens after the step is the one before with the
\* token of this id replaced by info.
OnlyTokenReplaced(token_id, info) ==
    /\ inner'.tokens.repo = [inner.tokens.repo EXCEPT !.repo[token_id] = info]
    /\ token_id \in DOMAIN inner.tokens.repo.repo

get_retention_period_cutoff_ts_nanos_now(schema, now) ==
    IF IsSome(schema.retention_period) THEN Some(now) ELSE NoneOpt

\* DatabaseSchema::get_retention_period_cutoff_ts_nanos
get_retention_period_cutoff_ts_nanos(schema, now) ==
    IF IsSome(schema.retention_period)
    THEN Some(TimeNs(now.secs - schema.retention_period[1], now.nanos))
    ELSE NoneOpt

\* Catalog::get_retention_period_cutoff_map: the tables of every schema of
\* list_db_schema, each with the cutoff of its database.
get_retention_period_cutoff_map(st, now) ==
    LET keys == UNION {{<<db_id, table_id>> :
                            table_id \in DOMAIN st.databases.repo[db_id].tables.repo} :
                       db_id \in {d \in DOMAIN st.databases.repo :
                           IsSome(get_retention_period_cutoff_ts_nanos(
                                      st.databases.repo[d], now))}}
    IN  [k \in keys |->
            get_retention_period_cutoff_ts_nanos(st.databases.repo[k[1]], now)[1]]

\* No retention batch is applied once the sequence has reached
\* MaxRetentionSeq.
MaxRetentionSeq == 6

\* The retention periods set: an hour, and a second more than Now2023 is
\* after the epoch.
RetentionDurations == {3600, 1700000001}

\* The ops on database 1: its creation without and with a retention
\* period, the creation of its tables 0 and 1, the setting and clearing of
\* the retention period, and the soft deletion of table 0 and of the
\* database.
RetentionOps ==
    {[op |-> "CreateDatabase", database_id |-> 1, database_name |-> "a",
      retention_period |-> r] : r \in {NoneOpt, Some(3600)}}
    \cup {CreateTableOp(<< >>, << >>),
          [CreateTableOp(<< >>, << >>) EXCEPT !.table_id = 1, !.table_name = "y"],
          [op |-> "ClearRetentionPeriod", database_id |-> 1, database_name |-> "a"],
          [op |-> "SoftDeleteTable", database_id |-> 1, database_name |-> "a",
           table_id |-> 0, table_name |-> "x", deletion_time |-> Epoch,
           hard_deletion_time |-> NoneOpt],
          [op |-> "SoftDeleteDatabase", database_id |-> 1, database_name |-> "a",
           deletion_time |-> Epoch, hard_deletion_time |-> NoneOpt]}
    \cup {[op |-> "SetRetentionPeriod", database_id |-> 1, database_name |-> "a",
           retention_period |-> Some(d)] : d \in RetentionDurations}

\* The batches above and the hard deletion of table 0 of database 1 are
\* applied in any order.
NextRetention ==
    \/ \E op \in RetentionOps :
           ApplyBatch(DatabaseBatch(Epoch, 1, "a", <<op>>), MaxRetentionSeq)
    \/ ApplyBatch(DeleteBatch(Epoch, <<[table_id |-> 0, op |-> "DeleteTable", db_id |-> 1]>>),
                  MaxRetentionSeq)

SpecRetention == Init /\ [][NextRetention]_vars

\* The tables the catalog holds: the pairs of a database id and a table id.
CatalogTables(st) ==
    UNION {{<<db_id, table_id>> : table_id \in DOMAIN st.databases.repo[db_id].tables.repo} :
           db_id \in DOMAIN st.databases.repo}

\* The map has the entry k exactly when the table of k passes the test
\* Listed, and then with the current time less the retention period of the
\* database.
CutoffMapIs(now, Listed(_)) ==
    LET map == get_retention_period_cutoff_map(inner, now)
    IN  /\ DOMAIN map \subseteq CatalogTables(inner)
        /\ \A k \in CatalogTables(inner) :
              LET db == inner.databases.repo[k[1]]
              IN  /\ k \in DOMAIN map <=> (Listed(k) /\ IsSome(db.retention_period))
                  /\ k \in DOMAIN map =>
                        /\ map[k].secs = now.secs - db.retention_period[1]
                        /\ map[k].nanos = now.nanos

\* The table of k and its database are not deleted.
NotDeleted(k) ==
    /\ ~inner.databases.repo[k[1]].deleted
    /\ ~inner.databases.repo[k[1]].tables.repo[k[2]].deleted

\* The table of k is in the catalog.
InCatalog(k) == k \in CatalogTables(inner)

ParquetFile(id, path, min_time, max_time) ==
    [id |-> id, path |-> path, min_time |-> min_time, max_time |-> max_time]

\* str::find: the index of the first occurrence of pat in s, or 0.
Find(s, pat) ==
    LET hits == {i \in 1..(Len(s) - Len(pat) + 1) : SubSeq(s, i, i + Len(pat) - 1) = pat}
    IN  IF hits = {} THEN 0 ELSE CHOOSE i \in hits : \A j \in hits : i <= j

RECURSIVE DecimalValue(_)
\* The number that a sequence of decimal digits denotes.
DecimalValue(digits) ==
    IF digits = << >>
    THEN 0
    ELSE 10 * DecimalValue(SubSeq(digits, 1, Len(digits) - 1))
         + (CHOOSE d \in 0..9 : Digit[d + 1] = digits[Len(digits)])

\* str::parse::<u8>: an optional + and then at least one decimal digit, of
\* a value below 256.
ParseU8(str) ==
    LET digits == IF str # << >> /\ str[1] = "+" THEN Tail(str) ELSE str
    IN  IF \/ digits = << >>
           \/ \E i \in 1..Len(digits) : \A d \in 1..10 : Digit[d] # digits[i]
           \/ Len(digits) > 3
        THEN [kind |-> "err", value |-> 0]
        ELSE IF DecimalValue(digits) > 255
        THEN [kind |-> "err", value |-> 0]
        ELSE [kind |-> "ok", value |-> DecimalValue(digits)]

\* CompactionService::get_file_generation
get_file_generation(path) ==
    LET gen_start == Find(path, <<"/", "g", "e", "n">>)
    IN  IF gen_start = 0
        THEN [kind |-> "ok", generation |-> 1]
        ELSE LET gen_part == SubSeq(path, gen_start + 4, Len(path))
                 gen_end  == Find(gen_part, <<"/">>)
             IN  IF gen_end = 0
                 THEN [kind |-> "err", generation |-> 0]
                 ELSE LET parsed == ParseU8(SubSeq(gen_part, 1, gen_end - 1))
                      IN  IF parsed.kind = "ok" /\ parsed.value >= 1 /\ parsed.value <= 5
                          THEN [kind |-> "ok", generation |-> parsed.value]
                          ELSE [kind |-> "err", generation |-> 0]

\* CompactionService::get_next_generation
get_next_generation(current_gen) ==
    IF current_gen < 5 THEN Some(current_gen + 1) ELSE NoneOpt

\* The least and the greatest number of a non-empty set.
MinOf(S) == CHOOSE x \in S : \A y \in S : x <= y

MaxOf(S) == CHOOSE x \in S : \A y \in S : y <= x

\* CompactionService::can_compact_to_generation, for files each of which
\* has min_time <= max_time.
can_compact_to_generation(cfg, files, target_duration) ==
    IF Len(files) < cfg.min_files_for_compaction
    THEN FALSE
    ELSE LET min_time == IF files = << >> THEN 0
                         ELSE MinOf({files[i].min_time : i \in DOMAIN files})
             max_time == IF files = << >> THEN 0
                         ELSE MaxOf({files[i].max_time : i \in DOMAIN files})
         IN  max_time - min_time >= target_duration

\* WriteBuffer::parquet_files
parquet_files(idx, db_id, table_id) ==
    IF <<db_id, table_id>> \in DOMAIN idx THEN idx[<<db_id, table_id>>] ELSE << >>

\* The body of the loop over the generations of a table in
\* identify_compaction_jobs: the job of the generation current_gen, if any.
GenerationJobs(cfg, db_schema, table_def, files, current_gen) ==
    LET IsOfGen(f) == get_file_generation(f.path).generation = current_gen
        of_gen     == SelectSeq(files, IsOfGen)
        next_gen   == get_next_generation(current_gen)
    IN  IF /\ of_gen # << >>
           /\ Len(of_gen) >= cfg.min_files_for_compaction
           /\ IsSome(next_gen)
           /\ next_gen[1] \in DOMAIN cfg.generation_durations
           /\ can_compact_to_generation(cfg, of_gen, cfg.generation_durations[next_gen[1]])
        THEN <<[database_id       |-> db_schema.id,
                table_id          |-> table_def.table_id,
                table_name        |-> table_def.table_name,
                source_generation |-> current_gen,
                target_generation |-> next_gen[1],
                files             |-> of_gen,
                sort_key          |-> table_def.sort_key]>>
        ELSE << >>

\* The body of the loop over the tables in identify_compaction_jobs: the
\* jobs of one table, or the error of get_file_generation.
TableJobs(cfg, db_schema, table_def, files) ==
    IF db_schema.deleted \/ table_def.deleted
       \/ Len(files) < cfg.min_files_for_compaction
    THEN [kind |-> "ok", jobs |-> << >>]
    ELSE IF \E i \in DOMAIN files : get_file_generation(files[i].path).kind = "err"
    THEN [kind |-> "err", jobs |-> << >>]
    ELSE [kind |-> "ok",
          jobs |-> GenerationJobs(cfg, db_schema, table_def, files, 1)
                   \o GenerationJobs(cfg, db_schema, table_def, files, 2)
                   \o GenerationJobs(cfg, db_schema, table_def, files, 3)
                   \o GenerationJobs(cfg, db_schema, table_def, files, 4)
                   \o GenerationJobs(cfg, db_schema, table_def, files, 5)]

RECURSIVE JobsOfTables(_, _, _, _)
\* The jobs of these tables, in the order of the database and table ids.
JobsOfTables(st, idx, cfg, keys) ==
    IF keys = {}
    THEN << >>
    ELSE LET k == CHOOSE a \in keys :
                      \A b \in keys : a[1] < b[1] \/ (a[1] = b[1] /\ a[2] <= b[2])
             db == st.databases.repo[k[1]]
         IN  TableJobs(cfg, db, db.tables.repo[k[2]], parquet_files(idx, k[1], k[2])).jobs
             \o JobsOfTables(st, idx, cfg, keys \ {k})

\* CompactionService::identify_compaction_jobs
identify_compaction_jobs(st, idx, cfg) ==
    IF \E k \in CatalogTables(st) :
           TableJobs(cfg, st.databases.repo[k[1]],
                     st.databases.repo[k[1]].tables.repo[k[2]],
                     parquet_files(idx, k[1], k[2])).kind = "err"
    THEN [kind |-> "err", jobs |-> << >>]
    ELSE [kind |-> "ok", jobs |-> JobsOfTables(st, idx, cfg, CatalogTables(st))]

\* The characters of the table names that the model has paths for.
Chars(name) ==
    CASE name = "x" -> <<"x">>
      [] name = "y" -> <<"y">>
      [] name = "w" -> <<"w">>
      [] name = "gen1" -> <<"g", "e", "n", "1">>

\* The decimal digits of a number below 1000.
DecimalChars(n) ==
    IF n < 10 THEN <<Digit[n + 1]>>
    ELSE IF n < 100 THEN <<Digit[(n \div 10) + 1], Digit[(n % 10) + 1]>>
    ELSE <<Digit[(n \div 100) + 1], Digit[((n \div 10) % 10) + 1], Digit[(n % 10) + 1]>>

\* CompactionService::generate_file_path, for a chunk time within the first
\* minute of 1970, as every time of the model is.
generate_file_path(job, generation, file_index) ==
    <<"d", "b", "s", "/">> \o Chars(job.table_name) \o <<"-">> \o DecimalChars(job.database_id)
    \o <<"/">> \o Chars(job.table_name) \o <<"-">> \o DecimalChars(job.table_id)
    \o <<"/", "g", "e", "n">> \o DecimalChars(generation)
    \o <<"/", "1", "9", "7", "0", "-", "0", "1", "-", "0", "1", "/", "0", "0", "-", "0", "0", "/">>
    \o DecimalChars(file_index)
    \o <<".", "p", "a", "r", "q", "u", "e", "t">>

\* CompactionService::calculate_time_range_from_batch, for a batch given by
\* its time column.
calculate_time_range_from_batch(record_batch) ==
    IF record_batch = << >>
    THEN [kind |-> "ok", min_time |-> 0, max_time |-> 0]
    ELSE IF \E i \in 2..Len(record_batch) : record_batch[i] < record_batch[1]
    THEN [kind |-> "err", min_time |-> 0, max_time |-> 0]
    ELSE [kind |-> "ok", min_time |-> record_batch[1], max_time |-> record_batch[Len(record_batch)]]

\* ParquetFileId::new() hands out an id that no other file has: the n-th
\* file that a job writes gets an id made of the id of the job's first
\* input and of n.
NewFileId(job, n) == 100 + 10 * job.files[1].id + n

RECURSIVE WriteBatches(_, _, _, _, _)
\* The loop of write_compacted_files from the batch with the index i on,
\* with the files pushed so far.
WriteBatches(job, data, cfg, serialize_ok, compacted_files) ==
    LET i == Len(data.done)
    IN  IF data.rest = << >>
        THEN [kind |-> "ok", files |-> compacted_files]
        ELSE LET record_batch == Head(data.rest)
                 next  == [done |-> Append(data.done, record_batch), rest |-> Tail(data.rest)]
                 range == calculate_time_range_from_batch(record_batch)
             IN  IF record_batch = << >>
                 THEN WriteBatches(job, next, cfg, serialize_ok, compacted_files)
                 ELSE IF \/ range.kind = "err"
                         \/ job.target_generation \notin DOMAIN cfg.generation_durations
                         \/ ~serialize_ok
                 THEN [kind |-> "err", files |-> << >>]
                 ELSE WriteBatches(job, next, cfg, serialize_ok,
                          Append(compacted_files,
                                 ParquetFile(NewFileId(job, Len(compacted_files)),
                                             generate_file_path(job, job.target_generation, i),
                                             range.min_time, range.max_time)))

\* CompactionService::write_compacted_files
write_compacted_files(job, data, cfg, serialize_ok) ==
    WriteBatches(job, [done |-> << >>, rest |-> data], cfg, serialize_ok, << >>)

\* CompactionService::validate_compacted_data: whether it returns Ok.
validate_compacted_data(compacted_files) ==
    \A i \in 2..Len(compacted_files) :
        compacted_files[i].min_time >= compacted_files[i - 1].min_time

\* CompactionService::execute_compaction_job up to its call of
\* update_catalog_for_compaction: the files written, or the error.  The
\* plan cannot be executed when a file of the job is not in the object
\* store; plan_ok and serialize_ok are what the executor and the Parquet
\* writer make of the data.
CompactFiles(job, store, cfg, plan_ok, data, serialize_ok) ==
    IF job.sort_key = << >>
    THEN [kind |-> "err", files |-> << >>]
    ELSE IF ~plan_ok \/ \E i \in DOMAIN job.files : job.files[i].path \notin store
    THEN [kind |-> "err", files |-> << >>]
    ELSE LET written == write_compacted_files(job, data, cfg, serialize_ok)
         IN  IF written.kind = "err" \/ ~validate_compacted_data(written.files)
             THEN [kind |-> "err", files |-> << >>]
             ELSE written

\* No compaction cycle begins once MaxCycles have begun.
MaxCycles == 2

\* The outputs of the executor that the compaction cycle draws from: one
\* batch, two batches in descending order of their first row, and a batch
\* whose second row is before its first.
CompactedData == {<<<<10, 20>>>>, <<<<30>>, <<10, 20>>>>, <<<<20, 10>>>>}

\* A job spawned into the JoinSet: the job, where its task is, what it
\* returned, the files it wrote, the files it has still to delete and the
\* paths it has deleted.
SpawnedTask(job) ==
    [job |-> job, pc |-> "spawned", result |-> "pending", compacted_files |-> << >>,
     to_delete |-> << >>, deleted |-> {}]

\* The task of CompactionService::start begins: a disabled service returns.
ServiceStart ==
    /\ service.pc = "start"
    /\ service' = [service EXCEPT !.pc = IF config.enabled THEN "select" ELSE "exited"]
    /\ UNCHANGED <<catalogVars, config, index, object_store, join_set, shutdown, tick,
                   persister, http>>

\* The interval of the service becomes due.
IntervalElapses ==
    /\ ~tick
    /\ tick' = TRUE
    /\ UNCHANGED <<catalogVars, config, index, object_store, service, join_set, shutdown,
                   persister, http>>

\* The shutdown token is signalled.
SignalShutdown ==
    /\ ~shutdown
    /\ shutdown' = TRUE
    /\ UNCHANGED <<catalogVars, config, index, object_store, service, join_set, tick,
                   persister, http>>

\* Faulty variant: as many jobs run concurrently as there are jobs.
MaxConcurrentUnlimited(jobs) == Len(jobs)

\* max_concurrent of run_compaction_cycle
MaxConcurrent(jobs) == IF Len(jobs) < 4 THEN Len(jobs) ELSE 4

\* select! takes the branch of interval.tick(): run_compaction_cycle
\* identifies the jobs; it returns at once when that fails or finds none.
TickBranch ==
    /\ service.pc = "select"
    /\ tick
    /\ service.cycles < MaxCycles
    /\ tick' = FALSE
    /\ LET r == identify_compaction_jobs(inner, index, config)
       IN  service' =
               IF r.kind = "err" \/ r.jobs = << >>
               THEN [service EXCEPT !.identified = r, !.cycles = @ + 1]
               ELSE [service EXCEPT
                        !.pc = "cycle",
                        !.jobs = SubSeq(r.jobs, 1,
                                        IF Len(r.jobs) < config.max_files_per_run
                                        THEN Len(r.jobs) ELSE config.max_files_per_run),
                        !.max_concurrent = MaxConcurrent(r.jobs),
                        !.completed_jobs = 0,
                        !.identified = r,
                        !.cycles = @ + 1]
    /\ UNCHANGED <<catalogVars, config, index, object_store, join_set, shutdown,
                   persister, http>>

\* select! takes the branch of shutdown_token.wait_for_shutdown(): the
\* loop is left and the task ends.
ShutdownBranch ==
    /\ service.pc = "select"
    /\ shutdown
    /\ service' = [service EXCEPT !.pc = "exited"]
    /\ UNCHANGED <<catalogVars, config, index, object_store, join_set, shutdown, tick,
                   persister, http>>

\* The for loop of run_compaction_cycle spawns the next job, the JoinSet
\* holding fewer than max_concurrent tasks.
Spawn ==
    /\ service.pc = "cycle"
    /\ service.jobs # << >>
    /\ Cardinality(join_set) < service.max_concurrent
    /\ join_set' = join_set \cup {SpawnedTask(Head(service.jobs))}
    /\ service' = [service EXCEPT !.jobs = Tail(service.jobs)]
    /\ UNCHANGED <<catalogVars, config, index, object_store, shutdown, tick,
                   persister, http>>

\* set.join_next() returns a finished task, in the for loop when the
\* JoinSet is full and in the while loop after it; when the last task is
\* joined the cycle is over.
JoinNext ==
    /\ service.pc = "cycle"
    /\ service.jobs = << >> \/ Cardinality(join_set) >= service.max_concurrent
    /\ \E t \in join_set :
          /\ t.pc = "done"
          /\ join_set' = join_set \ {t}
          /\ service' = [service EXCEPT
                            !.completed_jobs = IF t.result = "Ok" THEN @ + 1 ELSE @,
                            !.pc = IF service.jobs = << >> /\ join_set = {t}
                                   THEN "select" ELSE "cycle"]
    /\ UNCHANGED <<catalogVars, config, index, object_store, shutdown, tick,
                   persister, http>>

\* A spawned job runs execute_compaction_job up to its call of
\* update_catalog_for_compaction, or returns the error of a step before.
JobCompacts ==
    \E t \in join_set, plan_ok \in BOOLEAN, data \in CompactedData, serialize_ok \in BOOLEAN :
        /\ t.pc = "spawned"
        /\ LET r == CompactFiles(t.job, object_store, config, plan_ok, data, serialize_ok)
           IN  join_set' = (join_set \ {t}) \cup
                   {IF r.kind = "err"
                    THEN [t EXCEPT !.pc = "done", !.result = "Err"]
                    ELSE [t EXCEPT !.pc = "update", !.compacted_files = r.files,
                                   !.to_delete = t.job.files]}
        /\ UNCHANGED <<catalogVars, config, index, object_store, service, shutdown, tick,
                       persister, http>>

\* Faulty variant: a failed delete is returned as the error of the job.
update_catalog_for_compaction_strict(old_files, deleted) ==
    IF \A i \in DOMAIN old_files : old_files[i].path \in deleted THEN "Ok" ELSE "Err"

\* What CompactionService::update_catalog_for_compaction returns after its
\* loop over old_files, of which it has deleted these paths: a failed
\* delete is only warned about.
update_catalog_for_compaction(old_files, deleted) == "Ok"

\* CompactionService::update_catalog_for_compaction deletes the next old
\* file from the object store, or fails to and warns; after the last one it
\* returns, and the job returns what it returned.
JobDeletes ==
    \E t \in join_set, delete_ok \in BOOLEAN :
        /\ t.pc = "update"
        /\ t.to_delete # << >>
        /\ LET path == Head(t.to_delete).path
               removed == delete_ok /\ path \in object_store
               rest == Tail(t.to_delete)
               deleted == IF removed THEN t.deleted \cup {path} ELSE t.deleted
           IN  /\ object_store' = IF removed THEN object_store \ {path} ELSE object_store
               /\ join_set' = (join_set \ {t}) \cup
                      {[t EXCEPT !.to_delete = rest,
                                 !.deleted = deleted,
                                 !.pc = IF rest = << >> THEN "done" ELSE "update",
                                 !.result = IF rest = << >>
                                            THEN update_catalog_for_compaction(t.job.files,
                                                                               deleted)
                                            ELSE "pending"]}
        /\ UNCHANGED <<catalogVars, config, index, service, shutdown, tick,
                       persister, http>>

\* A CreateTableLog for a table of database 1 with the tag t1 and the time
\* column; its sort key is t1, time.
TaggedTableOp(table_id, table_name) ==
    [CreateTableOp(<<Field(0, "t1", "Tag"), Field(2, "time", "Timestamp")>>, <<0>>)
         EXCEPT !.table_id = table_id, !.table_name = table_name]

\* The catalog with database 1 and the tables that these ops create.
CatalogWith(ops) ==
    apply_catalog_batch(InitialCatalog,
        DatabaseBatch(Epoch, 1, "a",
            <<[op |-> "CreateDatabase", database_id |-> 1, database_name |-> "a",
               retention_period |-> NoneOpt]>> \o ops), 2).st

\* The path of the n-th file of a table of database 1 as the persister
\* writes it (dbs/a-1/<table>-<id>/<n>.parquet, shortened to dbs/a-1/
\* <table>-<id>/<n>), and with the segment gen<level> that compaction.rs
\* expects of a compacted file when level is not 1.
FilePath(table_name, table_id, level, n) ==
    <<"d", "b", "s", "/", "a", "-", "1", "/">> \o Chars(table_name) \o <<"-">>
    \o DecimalChars(table_id) \o <<"/">>
    \o (IF level = 1 THEN << >> ELSE <<"g", "e", "n">> \o DecimalChars(level) \o <<"/">>)
    \o DecimalChars(n)

\* The paths of the files of the index.
IndexedPaths(idx) == UNION {{idx[k][i].path : i \in DOMAIN idx[k]} : k \in DOMAIN idx}

\* The catalog has been loaded from a checkpoint of this state and no
\* writer has begun a call.
CatalogLoaded(st) ==
    /\ limits = CatalogLimitsDefault
    /\ inner = st
    /\ permit_locked = FALSE
    /\ permit_value = st.sequence
    /\ pc = [w \in Writers |-> "idle"]
    /\ req = [w \in Writers |-> NoReq]
    /\ observed = [w \in Writers |-> 0]
    /\ first_observed = [w \in Writers |-> 0]
    /\ batch = [w \in Writers |-> NoBatch]
    /\ stamped = [w \in Writers |-> 0]
    /\ result = [w \in Writers |-> "none"]
    /\ log = << >>
    /\ checkpoint = st
    /\ history = << >>
    /\ restarts = 0

\* The state in which the compaction service is started: the catalog has
\* the tables x and w with a sort key and y without one; x has two files of
\* generation 1 and one of generation 2, w has one each of generations 1
\* and 2, and y has one; the object store has every file.
InitCompaction ==
    /\ CatalogLoaded(CatalogWith(<<TaggedTableOp(0, "x"),
                                   [CreateTableOp(<< >>, << >>) EXCEPT !.table_id = 1,
                                                                       !.table_name = "y"],
                                   TaggedTableOp(2, "w")>>))
    /\ config \in {[enabled |-> e, max_files_per_run |-> 100, min_files_for_compaction |-> 1,
                    generation_durations |-> (2 :> 10) @@ (3 :> 10) @@ (4 :> 10)] :
                   e \in BOOLEAN}
    /\ index = (<<1, 0>> :> <<ParquetFile(1, FilePath("x", 0, 1, 1), 0, 5),
                              ParquetFile(2, FilePath("x", 0, 1, 2), 5, 10),
                              ParquetFile(3, FilePath("x", 0, 2, 3), 0, 20)>>)
               @@ (<<1, 1>> :> <<ParquetFile(5, FilePath("y", 1, 1, 5), 0, 10)>>)
               @@ (<<1, 2>> :> <<ParquetFile(6, FilePath("w", 2, 1, 6), 0, 10),
                                 ParquetFile(7, FilePath("w", 2, 2, 7), 0, 10)>>)
    /\ object_store = IndexedPaths(index)
    /\ service = ServiceNew
    /\ join_set = {}
    /\ shutdown = FALSE
    /\ tick = TRUE
    /\ persister = [pc |-> "idle"]
    /\ http = [pc |-> "idle"]

NextCompaction ==
    \/ ServiceStart
    \/ IntervalElapses
    \/ SignalShutdown
    \/ TickBranch
    \/ ShutdownBranch
    \/ Spawn
    \/ JoinNext
    \/ JobCompacts
    \/ JobDeletes

SpecCompaction == InitCompaction /\ [][NextCompaction]_vars

\* ---------------------------------------------------------------------------
\* The compaction job and the persisted-files index

\* The files of the index for the table of a job.
IndexedFiles(job) ==
    LET files == parquet_files(index, job.database_id, job.table_id)
    IN  {files[i] : i \in DOMAIN files}

\* The input files of a job.
InputFiles(job) == {job.files[i] : i \in DOMAIN job.files}

\* The files that the task of a job wrote.
OutputFiles(t) == {t.compacted_files[i] : i \in DOMAIN t.compacted_files}

\* C24: a successful compaction job updates the persisted-files index in
\* one atomic step that adds all of its output files and removes all of its
\* input files: during a job the index of the table has every input of the
\* job and none of its outputs, or every output and none of its inputs, and
\* it has the outputs and not the inputs once the job has returned Ok.
CompactionPublishedAtomically ==
    \A t \in join_set :
        LET pre  == InputFiles(t.job) \subseteq IndexedFiles(t.job)
                    /\ OutputFiles(t) \cap IndexedFiles(t.job) = {}
            post == OutputFiles(t) \subseteq IndexedFiles(t.job)
                    /\ InputFiles(t.job) \cap IndexedFiles(t.job) = {}
        IN  /\ pre \/ post
            /\ t.result = "Ok" => post


\* The tasks that end with an error in this step.
FailingTasks == {t \in join_set' : t.result = "Err" /\ t \notin join_set}

\* C25: if any step of a compaction job fails, the job ends without
\* changing the catalog or the persisted-files index and without deleting
\* any input file: a job that has returned an error has deleted nothing,
\* and the step in which it fails leaves the catalog, the index and the
\* object store as they were.
FailedJobTouchesNothing ==
    /\ [](\A t \in join_set : t.result = "Err" => t.deleted = {} /\ t.compacted_files = << >>)
    /\ [][FailingTasks # {} =>
              /\ inner' = inner
              /\ index' = index
              /\ object_store' = object_store]_vars

\* A job has failed although its table has a sort key and all its inputs
\* are in the object store, and the inputs are all still there and indexed.
FailedJobTouchesNothingWitness ==
    \E t \in join_set :
        /\ t.result = "Err"
        /\ t.job.sort_key # << >>
        /\ Len(t.job.files) = 2
        /\ \A f \in InputFiles(t.job) : f.path \in object_store /\ f \in IndexedFiles(t.job)

\* ---------------------------------------------------------------------------
\* The identification of compaction jobs

\* The catalogs that jobs are identified in: database 1 with the tables x
\* and w; with the table gen1 besides; with x soft-deleted; and with the
\* database soft-deleted.
IdentifyCatalogs ==
    LET tables == <<TaggedTableOp(0, "x"), TaggedTableOp(2, "w")>>
    IN  {CatalogWith(tables \o more) :
             more \in {<< >>,
                       <<TaggedTableOp(3, "gen1")>>,
                       <<[op |-> "SoftDeleteTable", database_id |-> 1, database_name |-> "a",
                          table_id |-> 0, table_name |-> "x", deletion_time |-> Epoch,
                          hard_deletion_time |-> NoneOpt]>>,
                       <<[op |-> "SoftDeleteDatabase", database_id |-> 1,
                          database_name |-> "a", deletion_time |-> Epoch,
                          hard_deletion_time |-> NoneOpt]>>}}

\* The files that table x may have: two of generation 1, one each of
\* generations 2 and 5.
FilesOfX ==
    <<ParquetFile(1, FilePath("x", 0, 1, 1), 0, 5),
      ParquetFile(2, FilePath("x", 0, 1, 2), 5, 10),
      ParquetFile(3, FilePath("x", 0, 2, 3), 0, 20),
      ParquetFile(4, FilePath("x", 0, 5, 4), 0, 40)>>

\* The compaction service is started on one of the catalogs; x has any of
\* its files, w has one file of generation 1, and the table gen1, where
\* there is one, has one file that the persister wrote.
InitIdentify ==
    /\ limits = CatalogLimitsDefault
    /\ \E st \in IdentifyCatalogs : CatalogLoaded(st)
    /\ \E min_files \in {1, 2}, target \in {2, 3}, duration \in {10, 30} :
          config = [enabled |-> TRUE, max_files_per_run |-> 100,
                    min_files_for_compaction |-> min_files,
                    generation_durations |-> (target :> duration)]
    /\ \E has \in [DOMAIN FilesOfX -> BOOLEAN] :
          LET Has(f) == \E i \in DOMAIN FilesOfX : FilesOfX[i] = f /\ has[i]
          IN  index = (<<1, 0>> :> SelectSeq(FilesOfX, Has))
                      @@ (<<1, 2>> :> <<ParquetFile(6, FilePath("w", 2, 1, 6), 0, 10)>>)
                      @@ (IF <<1, 3>> \in CatalogTables(inner)
                          THEN <<1, 3>> :> <<ParquetFile(8, FilePath("gen1", 3, 1, 8), 0, 10)>>
                          ELSE << >>)
    /\ object_store = IndexedPaths(index)
    /\ service = ServiceNew
    /\ join_set = {}
    /\ shutdown = FALSE
    /\ tick = TRUE
    /\ persister = [pc |-> "idle"]
    /\ http = [pc |-> "idle"]

NextIdentify ==
    \/ ServiceStart
    \/ TickBranch

SpecIdentify == InitIdentify /\ [][NextIdentify]_vars

\* The files of the table k that are at generation L.
FilesAt(k, L) ==
    LET AtL(f) == get_file_generation(f.path) = [kind |-> "ok", generation |-> L]
    IN  SelectSeq(parquet_files(index, k[1], k[2]), AtL)

\* The span max(max_time) - min(min_time) over these files.
Span(files) ==
    MaxOf({files[i].max_time : i \in DOMAIN files})
    - MinOf({files[i].min_time : i \in DOMAIN files})

\* The table k has enough files at generation L, L is less than 5, a
\* duration is configured for L + 1 and the files span it.
Eligible(k, L) ==
    /\ FilesAt(k, L) # << >>
    /\ Len(FilesAt(k, L)) >= config.min_files_for_compaction
    /\ L < 5
    /\ L + 1 \in DOMAIN config.generation_durations
    /\ Span(FilesAt(k, L)) >= config.generation_durations[L + 1]

\* The jobs that the cycle has identified for the table k and the source
\* generation L.
JobsFor(k, L) ==
    LET jobs == service.identified.jobs
    IN  {i \in DOMAIN jobs : /\ jobs[i].database_id = k[1]
                             /\ jobs[i].table_id = k[2]
                             /\ jobs[i].source_generation = L}

\* C26: in each cycle a job is enqueued for a non-deleted table of a
\* non-deleted database and a source generation L exactly when the table
\* has at least min_files_for_compaction files at L, L is less than 5, a
\* duration is configured for L + 1 and the files span at least that
\* duration; the target of the job is L + 1 and its inputs are exactly those
\* files.
JobsExactlyWhenEligible ==
    service.identified.kind # "none" =>
        \A k \in CatalogTables(inner), L \in 1..5 :
            /\ JobsFor(k, L) # {} <=> NotDeleted(k) /\ Eligible(k, L)
            /\ \A i \in JobsFor(k, L) :
                  /\ service.identified.jobs[i].target_generation = L + 1
                  /\ service.identified.jobs[i].files = FilesAt(k, L)

\* No table of the catalog has a file whose path get_file_generation
\* rejects.
EveryPathParses ==
    \A k \in CatalogTables(inner) :
        \A i \in DOMAIN parquet_files(index, k[1], k[2]) :
            get_file_generation(parquet_files(index, k[1], k[2])[i].path).kind = "ok"

\* ---------------------------------------------------------------------------
\* The concurrency of a compaction cycle

\* The spawned jobs that have not returned.
Executing == {t \in join_set : t.pc # "done"}

\* C27: at every moment of a compaction cycle at most 4 jobs are executing,
\* however many were identified, and every job started in the cycle is
\* awaited before the cycle ends: a task leaves the JoinSet only when it has
\* returned, and outside a cycle the JoinSet is empty.
AtMostFourJobsAndAllAwaited ==
    /\ [](Cardinality(Executing) <= 4)
    /\ [](service.pc # "cycle" => join_set = {})
    /\ [][\A t \in join_set : (\A u \in join_set' : u.job # t.job) => t.pc = "done"]_vars

\* Four jobs are executing and a fifth that was identified has not been
\* spawned.
AtMostFourJobsAndAllAwaitedWitness ==
    /\ Cardinality(Executing) = 4
    /\ Len(service.identified.jobs) = 5
    /\ service.jobs # << >>

\* ---------------------------------------------------------------------------
\* The shutdown of the compaction service

\* Every task that can take a step takes one in the end, and select! does
\* not pass over a branch for ever that is ready again and again: it polls
\* its branches in a random order.
SpecCompactionFair ==
    /\ SpecCompaction
    /\ WF_vars(ServiceStart)
    /\ WF_vars(Spawn)
    /\ WF_vars(JoinNext)
    /\ WF_vars(JobCompacts)
    /\ WF_vars(JobDeletes)
    /\ SF_vars(ShutdownBranch)

\* A compaction cycle begins in this step.
CycleBegins == service'.cycles = service.cycles + 1

\* C28: after shutdown is signalled the compaction service lets a cycle
\* that is in progress run to completion, starts no new cycle, and its task
\* exits in the end.
ShutdownEndsCompaction ==
    /\ [][shutdown => ~CycleBegins]_vars
    /\ (shutdown /\ service.pc = "cycle") ~> (service.pc # "cycle" /\ join_set = {})
    /\ shutdown ~> service.pc = "exited"

\* ---------------------------------------------------------------------------
\* The loading of snapshots (persister.rs)

\* The number that stands for u64::MAX in the path of a snapshot: above
\* every snapshot sequence number of the model.
SequenceCeiling == 2100

\* The most snapshots that the object store holds at the start.
MaxSnapshots == 2001

\* The most snapshots persisted after the start.
MaxPersists == 2

\* SnapshotInfoFilePath::new: the path <prefix>/snapshots/<u64::MAX less the
\* sequence number, zero-padded>.info.json, which the model keeps as that
\* number; the order of the paths is the order of the numbers.
SnapshotInfoFilePath(snapshot_sequence_number) == SequenceCeiling - snapshot_sequence_number

\* The locations of a set in ascending order.
Ascending(locations) ==
    LET In(location) == location \in locations
    IN  SelectSeq([i \in 1..(SequenceCeiling + 1) |-> i - 1], In)

\* Faulty variant: the list in descending order of location.
SortedByLocationDescending(list) ==
    LET sorted == Ascending(list)
    IN  [i \in 1..Len(sorted) |-> sorted[Len(sorted) + 1 - i]]

\* list.sort_unstable_by(|a, b| a.location.cmp(&b.location)) of a listing,
\* which arrives in any order.
SortedByLocation(list) == Ascending(list)

\* ObjectStore::list of the snapshot directory, and list_with_offset: the
\* locations greater than the offset.
ListSnapshots(store, offset) ==
    IF IsSome(offset)
    THEN {location \in DOMAIN store : location > offset[1]}
    ELSE DOMAIN store

\* The persister with these snapshots in the object store.
PersisterWith(sequence_numbers) ==
    [pc |-> "idle",
     store |-> [location \in {SnapshotInfoFilePath(n) : n \in sequence_numbers} |->
                    SequenceCeiling - location],
     persists |-> 0, requested |-> 0, most_recent_n |-> 0, offset |-> NoneOpt,
     futures |-> << >>, results |-> [kind |-> "none", snapshots |-> << >>]]

\* Persister::persist_snapshot of the snapshot after the newest one.
PersistSnapshot ==
    /\ persister.pc = "idle"
    /\ persister.persists < MaxPersists
    /\ LET stored == {persister.store[l] : l \in DOMAIN persister.store}
           next   == IF stored = {} THEN 0 ELSE MaxOf(stored) + 1
       IN  persister' = [persister EXCEPT
                            !.store = (SnapshotInfoFilePath(next) :> next) @@ @,
                            !.persists = @ + 1]
    /\ UNCHANGED <<catalogVars, config, index, object_store, service, join_set, shutdown,
                   tick, http>>

\* The numbers of snapshots that are asked for.
RequestedCounts == {0, 1, 2, 999, 1000, 1001, 1500, 2000, 2001, 2500}

\* Persister::load_snapshots is called.
LoadSnapshotsCall ==
    /\ persister.pc = "idle"
    /\ \E most_recent_n \in RequestedCounts :
          persister' = [persister EXCEPT
                           !.pc = "loop", !.requested = most_recent_n,
                           !.most_recent_n = most_recent_n, !.offset = NoneOpt,
                           !.futures = << >>,
                           !.results = [kind |-> "none", snapshots |-> << >>]]
    /\ UNCHANGED <<catalogVars, config, index, object_store, service, join_set, shutdown,
                   tick, http>>

\* One pass of the while loop of load_snapshots: a page of at most 1000
\* locations is listed after the offset, sorted, and a get is queued for
\* each of its first count locations.
LoadPage ==
    /\ persister.pc = "loop"
    /\ persister.most_recent_n > 0
    /\ LET count == IF persister.most_recent_n > 1000 THEN 1000 ELSE persister.most_recent_n
           left  == IF persister.most_recent_n > 1000 THEN persister.most_recent_n - 1000
                    ELSE 0
           list  == SortedByLocation(ListSnapshots(persister.store, persister.offset))
           end   == IF Len(list) <= count THEN Len(list) ELSE count
       IN  persister' = [persister EXCEPT
                            !.most_recent_n = left,
                            !.futures = @ \o SubSeq(list, 1, end),
                            !.offset = IF end = 0 THEN @ ELSE Some(list[end]),
                            !.pc = IF end = 0 \/ left = 0 THEN "collect" ELSE "loop"]
    /\ UNCHANGED <<catalogVars, config, index, object_store, service, join_set, shutdown,
                   tick, http>>

\* The loop is over: the queued gets are awaited in their order, and the
\* snapshots are returned, or the error of a get.
LoadCollect ==
    /\ \/ persister.pc = "collect"
       \/ persister.pc = "loop" /\ persister.most_recent_n = 0
    /\ \E get_ok \in BOOLEAN :
          persister' = [persister EXCEPT
                           !.pc = "returned",
                           !.results =
                               IF get_ok \/ persister.futures = << >>
                               THEN [kind |-> "ok",
                                     snapshots |-> [i \in DOMAIN persister.futures |->
                                                        persister.store[persister.futures[i]]]]
                               ELSE [kind |-> "err", snapshots |-> << >>]]
    /\ UNCHANGED <<catalogVars, config, index, object_store, service, join_set, shutdown,
                   tick, http>>

\* The server starts with the snapshots 0 .. count - 1 in the object store,
\* or with those but snapshot 1, and loads snapshots before it persists
\* another.
InitSnapshots ==
    /\ CatalogLoaded(InitialCatalog)
    /\ config = CompactionConfigDefault
    /\ index = << >>
    /\ object_store = {}
    /\ service = ServiceNew
    /\ join_set = {}
    /\ shutdown = FALSE
    /\ tick = FALSE
    /\ http = [pc |-> "idle"]
    /\ \E count \in {0, 1, 2, 999, 1000, 1001, 1002, MaxSnapshots}, missing \in {{}, {1}} :
          persister = PersisterWith({n \in 0..(count - 1) : n \notin missing})

NextSnapshots ==
    \/ PersistSnapshot
    \/ LoadSnapshotsCall
    \/ LoadPage
    \/ LoadCollect

SpecSnapshots == InitSnapshots /\ [][NextSnapshots]_vars

\* The sequence numbers of the stored snapshots.
StoredSnapshots == {persister.store[l] : l \in DOMAIN persister.store}

\* C29: load_snapshots(n) returns min(n, number of stored snapshots)
\* snapshots, those with the highest sequence numbers, newest first, none
\* repeated or skipped, also when more than 1000 are stored and the listing
\* is paged by offset.
LoadsNewestSnapshots ==
    (persister.pc = "returned" /\ persister.results.kind = "ok") =>
        LET loaded == persister.results.snapshots
            number == Cardinality(StoredSnapshots)
            among  == {loaded[i] : i \in DOMAIN loaded}
        IN  /\ Len(loaded) = IF persister.requested < number THEN persister.requested
                             ELSE number
            /\ among \subseteq StoredSnapshots
            /\ \A i \in 1..(Len(loaded) - 1) : loaded[i] > loaded[i + 1]
            /\ \A n \in StoredSnapshots :
                  loaded # << >> /\ n > loaded[Len(loaded)] => n \in among
            /\ loaded # << >> => loaded[1] = MaxOf(StoredSnapshots)

\* 1500 snapshots were asked for of more than 1000 stored ones, of which
\* one sequence number is missing, and two pages were listed.
LoadsNewestSnapshotsWitness ==
    /\ persister.pc = "returned"
    /\ persister.results.kind = "ok"
    /\ persister.requested = 1500
    /\ Len(persister.results.snapshots) > 1000
    /\ 1 \notin StoredSnapshots
    /\ 0 \in StoredSnapshots

\* ---------------------------------------------------------------------------
\* The validation of database names (http.rs)

\* The longest name that is validated.
MaxNameLen == 4

\* The graphemes that names are made of: letters, a digit, the underscore,
\* the hyphen, the slash, two other ASCII characters, and a letter of two
\* bytes.
Graphemes == {"a", "Z", "7", "_", "-", "/", "!", " ", "é"}

\* grapheme.len(): the number of bytes of a grapheme.
ByteLen(grapheme) == IF grapheme = "é" THEN 2 ELSE 1

\* char::is_ascii_alphanumeric
is_ascii_alphanumeric(char) == char \in {"a", "Z", "7"}

V1_NAMESPACE_RP_SEPARATOR == "/"

RECURSIVE ValidateFrom(_, _, _, _)
\* The loop of validate_db_name from the i-th grapheme on.
ValidateFrom(name, accept_rp, i, rp_seperator_found) ==
    IF i > Len(name)
    THEN IF name[Len(name)] = "/" THEN "InvalidRetentionPolicy" ELSE "Ok"
    ELSE IF ByteLen(name[i]) > 1
    THEN "InvalidChar"
    ELSE IF i = 1
    THEN IF ~is_ascii_alphanumeric(name[i])
         THEN "InvalidStartChar"
         ELSE ValidateFrom(name, accept_rp, i + 1, rp_seperator_found)
    ELSE IF accept_rp /\ rp_seperator_found /\ name[i] = V1_NAMESPACE_RP_SEPARATOR
    THEN "InvalidRetentionPolicy"
    ELSE IF accept_rp /\ ~rp_seperator_found /\ name[i] = V1_NAMESPACE_RP_SEPARATOR
    THEN ValidateFrom(name, accept_rp, i + 1, TRUE)
    ELSE IF ~accept_rp /\ ~(is_ascii_alphanumeric(name[i]) \/ name[i] = "_" \/ name[i] = "-")
    THEN "InvalidChar"
    ELSE ValidateFrom(name, accept_rp, i + 1, rp_seperator_found)

\* validate_db_name
validate_db_name(name, accept_rp) ==
    IF name = << >> THEN "Empty" ELSE ValidateFrom(name, accept_rp, 1, FALSE)

\* A request names a database; its endpoint accepts a retention policy
\* after the name or does not.
InitHttp ==
    /\ CatalogLoaded(InitialCatalog)
    /\ config = CompactionConfigDefault
    /\ index = << >>
    /\ object_store = {}
    /\ service = ServiceNew
    /\ join_set = {}
    /\ shutdown = FALSE
    /\ tick = FALSE
    /\ persister = [pc |-> "idle"]
    /\ \E n \in 0..MaxNameLen, accept_rp \in BOOLEAN : \E name \in [1..n -> Graphemes] :
          http = [pc |-> "request", name |-> name, accept_rp |-> accept_rp,
                  result |-> "none"]

\* The name of the request is validated.
ValidateDbName ==
    /\ http.pc = "request"
    /\ http' = [http EXCEPT !.pc = "validated",
                            !.result = validate_db_name(http.name, http.accept_rp)]
    /\ UNCHANGED <<catalogVars, config, index, object_store, service, join_set, shutdown,
                   tick, persister>>

NextHttp == ValidateDbName

SpecHttp == InitHttp /\ [][NextHttp]_vars

\* The number of slashes in a name.
Slashes(name) == Cardinality({i \in DOMAIN name : name[i] = "/"})

\* C30: a database name is accepted only if it is non-empty, ASCII, starts
\* with an alphanumeric character and every later character is
\* alphanumeric, `_` or `-`; when retention-policy suffixes are accepted the
\* only additional allowance is a single `/`, which is not the last
\* character.
AcceptedNameIsWellFormed ==
    http.result = "Ok" =>
        /\ http.name # << >>
        /\ \A i \in DOMAIN http.name : ByteLen(http.name[i]) = 1
        /\ is_ascii_alphanumeric(http.name[1])
        /\ \A i \in 2..Len(http.name) :
              \/ is_ascii_alphanumeric(http.name[i])
              \/ http.name[i] \in {"_", "-"}
              \/ /\ http.accept_rp
                 /\ http.name[i] = "/"
                 /\ Slashes(http.name) = 1
                 /\ i < Len(http.name)

\* ---------------------------------------------------------------------------
\* The blobs of a compaction job

\* The input rows of the job of this task can be read from the object
\* store: every input blob is there, or every output blob is.
RowsReadable(t) ==
    \/ \A f \in InputFiles(t.job) : f.path \in object_store
    \/ /\ t.compacted_files # << >>
       /\ \A f \in OutputFiles(t) : f.path \in object_store

\* C31: a compaction job deletes an input blob only after every output file
\* of that job has been written to the object store, so that at every moment
\* the input rows can be read from a blob of the store: a task that has
\* deleted an input has all its outputs in the store, and the rows of every
\* task whose inputs were there when it began can be read.
InputsDeletedOnlyAfterOutputsWritten ==
    \A t \in join_set :
        /\ t.deleted # {} => \A f \in OutputFiles(t) : f.path \in object_store
        /\ t.pc \in {"update", "done"} /\ t.result # "Err" => RowsReadable(t)

\* ---------------------------------------------------------------------------
\* The two maps of a Repository

\* The ids of the id <-> name bi-map of a repository are those of its value
\* map.
SameIdSet(r) == {p[1] : p \in r.id_name_map} = DOMAIN r.repo

\* The repositories of a catalog: the databases, the tables of each
\* database, the columns of each table, the nodes and the tokens.
Repositories(st) ==
    {st.databases, st.nodes, st.tokens.repo}
    \cup {st.databases.repo[d].tables : d \in DOMAIN st.databases.repo}
    \cup UNION {{st.databases.repo[d].tables.repo[t].columns :
                    t \in DOMAIN st.databases.repo[d].tables.repo} :
                d \in DOMAIN st.databases.repo}

\* C32: in every Repository, after any sequence of insert, update and remove
\* operations, the set of ids in the id <-> name bi-map equals the set of ids
\* in the value map: it does so in every repository of the catalog.
CatalogSameIdSets == \A r \in Repositories(inner) : SameIdSet(r)

\* ---------------------------------------------------------------------------
\* The hash lookup of the token repository

\* TokenRepository::hash_to_info
TokenHashToInfo(tokens, hash) ==
    LET id == BiGetByRight(tokens.hash_lookup_map, hash)
    IN  IF IsSome(id) THEN RepoGetById(tokens.repo, id[1]) ELSE NoneOpt

\* The hashes that the tokens of the repository have and those that the
\* lookup has.
TokenHashes(tokens) ==
    {tokens.repo.repo[id].hash : id \in DOMAIN tokens.repo.repo}
    \cup {p[2] : p \in tokens.hash_lookup_map}

\* C33: the token hash lookup stays consistent with the token repository
\* across create, regenerate and delete, a create that fails included: a
\* hash resolves to a token if and only if that token exists and the hash is
\* its current hash, and no two tokens share a hash.
HashLookupConsistent ==
    LET tokens == inner.tokens
        ids    == DOMAIN tokens.repo.repo
    IN  /\ \A h \in TokenHashes(tokens) :
              LET info == TokenHashToInfo(tokens, h)
              IN  /\ IsSome(info) => info[1].hash = h
                  /\ (\E id \in ids : tokens.repo.repo[id].hash = h) => IsSome(info)
        /\ \A p \in tokens.hash_lookup_map : p[1] \in ids
        /\ \A i, j \in ids : tokens.repo.repo[i].hash = tokens.repo.repo[j].hash => i = j

\* ---------------------------------------------------------------------------
\* Batches that change nothing

\* The catalog but for its sequence number.
Content(st) == [st EXCEPT !.sequence = 0]

\* apply_catalog_batch has returned Ok in this step, with or without an
\* OrderedCatalogBatch.
AppliedWithoutError == result'[1] \in {"Ok", "Unchanged"}

\* C34: applying a batch that changes nothing in the catalog reports no
\* update, leaves the sequence number unchanged and leaves the catalog
\* unchanged: a call of apply_catalog_batch after which the catalog has the
\* content it had returns no OrderedCatalogBatch and keeps the sequence
\* number, and a call that returns none has changed nothing.
UnchangedCatalogReportsNoUpdate ==
    [][AppliedWithoutError =>
          /\ Content(inner') = Content(inner) =>
                 result'[1] = "Unchanged" /\ inner'.sequence = inner.sequence
          /\ result'[1] = "Unchanged" => inner' = inner]_vars

\* ---------------------------------------------------------------------------
\* The release of the write permit

\* C35: the write permit is released on every exit path (after Retry, after
\* a failed persist or apply, and after success), so that a writer waiting
\* for the permit is never blocked forever by a writer that has returned:
\* the permit is locked only while a writer is between its verification and
\* the end of its call, and every writer that waits for the permit gets it.
PermitReleasedOnEveryExit ==
    /\ [](permit_locked => PermitHolders # {})
    /\ \A w \in Writers : (pc[w] = "verify") ~> (pc[w] # "verify")

\* A writer has returned the error of the object store, another has been
\* sent back by Prompt::Retry, and the permit is free again.
PermitReleasedOnEveryExitWitness ==
    \E w, v \in Writers :
        /\ w # v
        /\ pc[w] = "idle" /\ result[w] = "ObjectStore"
        /\ pc[v] = "retry"
        /\ ~permit_locked

\* ---------------------------------------------------------------------------
\* The ids handed out while batches are composed

\* No call of SpecIds composes a batch once the sequence has reached MaxIdSeq.
MaxIdSeq == 3

\* Two writers create the databases a and b, the operator token and the
\* token t1 concurrently; a log write may fail.
NextIds ==
    \/ \E w \in Writers :
          Call(w, {[api |-> "create_database", name |-> "a"],
                   [api |-> "create_database", name |-> "b"],
                   [api |-> "create_admin_token", name |-> DEFAULT_OPERATOR_TOKEN_NAME,
                    hash |-> "h1"],
                   [api |-> "create_admin_token", name |-> "t1", hash |-> "h2"]},
               {Now2023}, MaxIdSeq)
    \/ \E w \in Writers : Recompose(w, {Now2023}, MaxIdSeq)
    \/ \E w \in Writers : Verify(w)
    \/ \E w \in Writers : Persist(w)
    \/ \E w \in Writers : PersistFail(w)
    \/ \E w \in Writers : Apply(w)

SpecIds == Init /\ [][NextIds]_vars

\* The ids a batch assigns: the database id of each CreateDatabase op and
\* the token id of each CreateAdminToken op.
HandedOutIn(b) ==
    IF b = NoBatch THEN {}
    ELSE {[kind |-> "database", id |-> b.ops[i].database_id] :
              i \in {j \in DOMAIN b.ops : b.ops[j].op = "CreateDatabase"}}
         \cup {[kind |-> "token", id |-> b.ops[i].token_id] :
                   i \in {j \in DOMAIN b.ops : b.ops[j].op = "CreateAdminToken"}}

\* The repository the ids of a kind are taken from.
IdRepository(st, kind) == IF kind = "database" THEN st.databases ELSE st.tokens.repo

\* The writer's call has composed a batch and has not returned.
InFlight(w) == pc[w] \in {"verify", "retry", "persist", "apply"}

\* An id a call holds is below next_id, is the id of no entity of the
\* catalog and of no other call; every id of a repository is below next_id.
IdsDistinct ==
    /\ \A w \in Writers : InFlight(w) =>
          \A x \in HandedOutIn(batch[w]) :
              /\ x.id < IdRepository(inner, x.kind).next_id
              /\ x.id \notin DOMAIN IdRepository(inner, x.kind).repo
              /\ \A v \in Writers \ {w} : InFlight(v) =>
                     \A y \in HandedOutIn(batch[v]) : y.kind = x.kind => y.id # x.id
    /\ \A r \in Repositories(inner) : \A id \in DOMAIN r.repo : id < r.next_id

\* An id given to a batch that is composed, the first time or after Retry,
\* is the next_id of before, and next_id never goes back.
IdsFresh ==
    /\ \A w \in Writers : batch'[w] # batch[w] =>
          \A x \in HandedOutIn(batch'[w]) :
              /\ x.id = IdRepository(inner, x.kind).next_id
              /\ x.id < IdRepository(inner', x.kind).next_id
    /\ \A kind \in {"database", "token"} :
          IdRepository(inner, kind).next_id <= IdRepository(inner', kind).next_id

\* C36: ids handed out while composing batches are unique: two batches
\* composed concurrently, or a batch recomposed after Retry, never assign the
\* same database or token id to two different entities, and next_id of a
\* repository is always greater than every id it contains.
HandedOutIdsUnique == [][IdsFresh]_vars /\ []IdsDistinct

\* Two calls got their ids off the same catalog, one of them has created its
\* entity and the other, sent back by Prompt::Retry, holds a third id for
\* the batch it has composed again.
HandedOutIdsUniqueWitness ==
    \E w \in Writers :
        /\ pc[w] = "verify" /\ first_observed[w] < observed[w]
        /\ \E x \in HandedOutIn(batch[w]) :
               \E id \in DOMAIN IdRepository(inner, x.kind).repo :
                   /\ x.id = id + 1
                   /\ id > 0 /\ id - 1 \notin DOMAIN IdRepository(inner, x.kind).repo

\* ---------------------------------------------------------------------------
\* The time range of a compacted file

\* No batch of TimeRangeData has more than MaxRows rows.
MaxRows == 3

\* The time columns of the batches the executor returns for a job.
TimeColumns == UNION {[1..n -> {10, 20, 30}] : n \in 0..MaxRows}

\* What the executor returns for a job: one batch or two.
TimeRangeData == {<<c>> : c \in TimeColumns} \cup (TimeColumns \X TimeColumns)

\* The first cycle of the service has identified its jobs and spawned the
\* first of them, whose plan the executor has run with the batches data.
InitTimeRange ==
    /\ CatalogLoaded(CatalogWith(<<TaggedTableOp(0, "x"),
                                   [CreateTableOp(<< >>, << >>) EXCEPT !.table_id = 1,
                                                                       !.table_name = "y"],
                                   TaggedTableOp(2, "w")>>))
    /\ config = [enabled |-> TRUE, max_files_per_run |-> 100, min_files_for_compaction |-> 1,
                 generation_durations |-> (2 :> 10) @@ (3 :> 10) @@ (4 :> 10)]
    /\ index = (<<1, 0>> :> <<ParquetFile(1, FilePath("x", 0, 1, 1), 0, 5),
                              ParquetFile(2, FilePath("x", 0, 1, 2), 5, 10),
                              ParquetFile(3, FilePath("x", 0, 2, 3), 0, 20)>>)
               @@ (<<1, 1>> :> <<ParquetFile(5, FilePath("y", 1, 1, 5), 0, 10)>>)
               @@ (<<1, 2>> :> <<ParquetFile(6, FilePath("w", 2, 1, 6), 0, 10),
                                 ParquetFile(7, FilePath("w", 2, 2, 7), 0, 10)>>)
    /\ object_store = IndexedPaths(index)
    /\ LET r == identify_compaction_jobs(inner, index, config)
       IN  /\ service = [ServiceNew EXCEPT !.pc = "cycle", !.jobs = Tail(r.jobs),
                                           !.max_concurrent = MaxConcurrent(r.jobs),
                                           !.identified = r, !.cycles = 1]
           /\ join_set \in {{[job |-> Head(r.jobs), pc |-> "spawned", result |-> "pending",
                              compacted_files |-> << >>, to_delete |-> << >>,
                              deleted |-> {}, data |-> data]} : data \in TimeRangeData}
    /\ shutdown = FALSE
    /\ tick = FALSE
    /\ persister = [pc |-> "idle"]
    /\ http = [pc |-> "idle"]

\* The job goes on from the batches of the executor: write_compacted_files
\* and validate_compacted_data run on them, with a Parquet writer that does
\* not fail.
JobWritesData ==
    \E t \in join_set :
        /\ t.pc = "spawned"
        /\ LET r == CompactFiles(t.job, object_store, config, TRUE, t.data, TRUE)
           IN  join_set' = (join_set \ {t}) \cup
                   {IF r.kind = "err"
                    THEN [t EXCEPT !.pc = "done", !.result = "Err"]
                    ELSE [t EXCEPT !.pc = "update", !.compacted_files = r.files,
                                   !.to_delete = t.job.files]}
        /\ UNCHANGED <<catalogVars, config, index, object_store, service, shutdown, tick,
                       persister, http>>

NextTimeRange ==
    \/ JobWritesData
    \/ JobDeletes

SpecTimeRange == InitTimeRange /\ [][NextTimeRange]_vars

\* Every value of the column is at least its predecessor.
NonDecreasing(c) == \A i \in 2..Len(c) : c[i - 1] <= c[i]

\* The batches of the data that have rows, in their order: those a file is
\* written for.
OutputBatches(data) == SelectSeq(data, LAMBDA c : c # << >>)

\* C37: for each output batch of a compaction job, the job fails unless the
\* batch's time column is non-decreasing (every value is at least its
\* predecessor), and the min_time and max_time recorded for the output file
\* are the minimum and maximum of that column.
TimeRangeOfSortedColumn ==
    \A t \in join_set :
        t.pc # "spawned" =>
            LET batches == OutputBatches(t.data)
            IN  /\ (\E i \in DOMAIN batches : ~NonDecreasing(batches[i])) => t.result = "Err"
                /\ t.result # "Err" =>
                       /\ Len(t.compacted_files) = Len(batches)
                       /\ \A i \in DOMAIN batches :
                              LET c == batches[i]
                                  f == t.compacted_files[i]
                              IN  /\ \A j \in DOMAIN c : f.min_time <= c[j] /\ c[j] <= f.max_time
                                  /\ \E j \in DOMAIN c : f.min_time = c[j]
                                  /\ \E j \in DOMAIN c : f.max_time = c[j]

\* ---------------------------------------------------------------------------
\* The generation of a file without one in its path

\* The segments of a path: what stands between two neighbouring slashes,
\* before the first and after the last.
PathSegments(path) ==
    LET ends == {0, Len(path) + 1} \cup {i \in DOMAIN path : path[i] = "/"}
    IN  {SubSeq(path, i + 1, j - 1) :
             <<i, j>> \in {e \in ends \X ends :
                              /\ e[1] < e[2]
                              /\ \A b \in ends : ~(e[1] < b /\ b < e[2])}}

\* The path has a segment gen<level> whose level parses as a number.
ContainsParseableGeneration(path) ==
    \E s \in PathSegments(path) :
        /\ Len(s) > 3
        /\ SubSeq(s, 1, 3) = <<"g", "e", "n">>
        /\ ParseU8(SubSeq(s, 4, Len(s))).kind = "ok"

\* The tables whose files a cycle buckets by generation: those that are not
\* deleted, of a database that is not deleted, with at least
\* min_files_for_compaction files.
BucketedTables ==
    {k \in CatalogTables(inner) :
        /\ NotDeleted(k)
        /\ Len(parquet_files(index, k[1], k[2])) >= config.min_files_for_compaction}

\* C38: when the compactor buckets a table's files by generation, every file
\* whose path does not contain a parseable generation is treated as
\* generation 1.
NoGenerationIsGenerationOne ==
    service.identified.kind # "none" =>
        \A k \in BucketedTables :
            LET files == parquet_files(index, k[1], k[2])
            IN  \A i \in DOMAIN files :
                    ~ContainsParseableGeneration(files[i].path) =>
                        get_file_generation(files[i].path) = [kind |-> "ok", generation |-> 1]

\* ---------------------------------------------------------------------------
\* A failure of one table or one job and the rest of the cycle

\* get_file_generation accepts the path of every file of the table k.
OwnPathsAccepted(k) ==
    \A i \in DOMAIN parquet_files(index, k[1], k[2]) :
        get_file_generation(parquet_files(index, k[1], k[2])[i].path).kind = "ok"

\* C39: a failure confined to one table or one job (a job that errors, or a
\* file whose path carries a rejected generation) does not prevent the other
\* tables' eligible files from being compacted in the same cycle, and the
\* service goes on to run later cycles: whatever the paths of the other
\* tables' files, a cycle has a job for every eligible generation of a table
\* whose own paths are accepted, and the service has not exited.
OtherTablesStillCompacted ==
    service.identified.kind # "none" =>
        /\ service.pc # "exited"
        /\ \A k \in CatalogTables(inner), L \in 1..5 :
               NotDeleted(k) /\ OwnPathsAccepted(k) /\ Eligible(k, L) => JobsFor(k, L) # {}

\* ---------------------------------------------------------------------------
\* The limits on the numbers of databases and tables

\* No limit of SpecLimits is above MaxLimit.
MaxLimit == 2

\* No call of SpecLimits composes a batch once the sequence has reached
\* MaxLimitSeq.
MaxLimitSeq == 5

\* The catalog is created with limits of 1 to MaxLimit databases and tables.
InitLimits ==
    /\ limits \in {[num_dbs |-> d, num_tables |-> t] : d \in 1..MaxLimit, t \in 1..MaxLimit}
    /\ inner = InitialCatalog
    /\ permit_locked = FALSE
    /\ permit_value = 1
    /\ pc = [w \in Writers |-> "idle"]
    /\ req = [w \in Writers |-> NoReq]
    /\ observed = [w \in Writers |-> 0]
    /\ first_observed = [w \in Writers |-> 0]
    /\ batch = [w \in Writers |-> NoBatch]
    /\ stamped = [w \in Writers |-> 0]
    /\ result = [w \in Writers |-> "none"]
    /\ log = (1 :> InternalDbBatch)
    /\ checkpoint = InnerCatalogNew
    /\ history = <<OrderedCatalogBatch(InternalDbBatch, 1)>>
    /\ restarts = 0
    /\ WriteIdle

\* The calls of the first writer: databases and tables are created and
\* soft-deleted by their current names.
LimitRequests(st) ==
    {[api |-> "create_database", name |-> n] : n \in {"a", "b", "c"}}
    \cup {[api |-> "create_table", db |-> "a", name |-> t] : t \in {"x", "y", "z"}}
    \cup {[api |-> "soft_delete_database", name |-> n, hard |-> [sel |-> "Never"]] :
              n \in CurrentDbNames(st)}
    \cup {[api |-> "soft_delete_table", db |-> "a", name |-> t, hard |-> [sel |-> "Never"]] :
              t \in CurrentTableNames(st, "a")}

\* The calls of the second writer: it creates a database and a table.
LimitCreateRequests ==
    {[api |-> "create_database", name |-> "b"],
     [api |-> "create_table", db |-> "a", name |-> "y"]}

NextLimits ==
    \/ Call(1, LimitRequests(inner), {Now2023}, MaxLimitSeq)
    \/ Call(2, LimitCreateRequests, {Now2023}, MaxLimitSeq)
    \/ \E w \in Writers : Recompose(w, {Now2023}, MaxLimitSeq)
    \/ \E w \in Writers : Verify(w)
    \/ \E w \in Writers : Persist(w)
    \/ \E w \in Writers : PersistFail(w)
    \/ \E w \in Writers : Apply(w)

SpecLimits == InitLimits /\ [][NextLimits]_vars

\* The databases that are neither soft-deleted nor the internal database.
LiveDatabases(st) ==
    {id \in DOMAIN st.databases.repo :
        ~st.databases.repo[id].deleted /\ st.databases.repo[id].name # INTERNAL_DB_NAME}

\* The tables that are not soft-deleted.
LiveTables(st) ==
    {k \in CatalogTables(st) : ~st.databases.repo[k[1]].tables.repo[k[2]].deleted}

\* What creating a database or a table of a name that is free returns in
\* this state: the limit error exactly when the live ones are as many as the
\* limit, and a batch otherwise.
LimitErrorAtLimit ==
    /\ \A n \in {"a", "b", "c"} :
          ~RepoContainsName(inner.databases, n) =>
              LET c == Compose(inner, [api |-> "create_database", name |-> n], Now2023)
              IN  IF Cardinality(LiveDatabases(inner)) >= limits.num_dbs
                  THEN c.kind = "err" /\ c.err = "TooManyDbs"
                  ELSE c.kind = "ok"
    /\ \A t \in {"x", "y", "z"} :
          LET db == RepoGetByName(inner.databases, "a")
          IN  (IsSome(db) /\ ~db[1].deleted /\ ~RepoContainsName(db[1].tables, t)) =>
                  LET c == Compose(inner, [api |-> "create_table", db |-> "a", name |-> t],
                                   Now2023)
                  IN  IF Cardinality(LiveTables(inner)) >= limits.num_tables
                      THEN c.kind = "err" /\ c.err = "TooManyTables"
                      ELSE c.kind = "ok"

\* A call returns the limit error only when the live ones are as many as the
\* limit, and composes a batch that creates one only when they are fewer.
LimitErrorOfCall ==
    \A w \in Writers :
        /\ (result'[w] = "TooManyDbs" /\ result[w] # "TooManyDbs") =>
               Cardinality(LiveDatabases(inner)) >= limits.num_dbs
        /\ (result'[w] = "TooManyTables" /\ result[w] # "TooManyTables") =>
               Cardinality(LiveTables(inner)) >= limits.num_tables
        /\ (pc[w] # "verify" /\ pc'[w] = "verify" /\ req'[w].api = "create_database") =>
               Cardinality(LiveDatabases(inner)) < limits.num_dbs
        /\ (pc[w] # "verify" /\ pc'[w] = "verify" /\ req'[w].api = "create_table") =>
               Cardinality(LiveTables(inner)) < limits.num_tables

=============================================================================
